---------------------------- MODULE Spec2Model ----------------------------
(***************************************************************************)
(* Claim Verification Engine of AIEarningsAnalyst.                         *)
(*                                                                         *)
(* The model follows backend/services/verification (verdict_engine,        *)
(* compute, tolerances, period_resolver, metric_catalog),                  *)
(* backend/services/misleading/heuristics, extraction/normalizer and the   *)
(* verification loop of backend/services/pipeline.                         *)
(*                                                                         *)
(* Numbers.  Python floats are modelled as exact rationals [k, n, d]:      *)
(* k = "num" with numerator n and denominator d > 0 in lowest terms,       *)
(* k = "none" for None and k = "inf" for float("inf").  Floating-point     *)
(* rounding is not modelled.                                               *)
(*                                                                         *)
(* Text.  Period texts are sequences of one-character strings, parsed by   *)
(* the regular expressions of parse_period.  A quote is the set of the     *)
(* phrases of Vocabulary it contains; each keyword list or regular         *)
(* expression of the engine is the set of vocabulary phrases it matches.   *)
(***************************************************************************)
EXTENDS Integers, Sequences, FiniteSets, TLC

(***************************************************************************)
(* Exact arithmetic                                                        *)
(***************************************************************************)
Abs(x) == IF x < 0 THEN -x ELSE x

RECURSIVE Gcd(_, _)
Gcd(a, b) == IF b = 0 THEN a ELSE Gcd(b, a % b)

None == [k |-> "none", n |-> 0, d |-> 1]

Inf == [k |-> "inf", n |-> 0, d |-> 1]

Rat(n, d) ==
    LET Reduce(g) == [k |-> "num", n |-> (IF d < 0 THEN -n ELSE n) \div g,
                      d |-> Abs(d) \div g]
    IN  Reduce(Gcd(Abs(n), Abs(d)))

Num(x) == Rat(x, 1)

IsNum(a) == a.k = "num"

IsNone(a) == a.k = "none"

RAdd(a, b) == Rat(a.n * b.d + b.n * a.d, a.d * b.d)

RSub(a, b) == Rat(a.n * b.d - b.n * a.d, a.d * b.d)

RMul(a, b) == Rat(a.n * b.n, a.d * b.d)

\* a / b for b # 0
RDiv(a, b) == Rat(a.n * b.d, a.d * b.n)

RAbs(a) == [a EXCEPT !.n = Abs(a.n)]

RNeg(a) == [a EXCEPT !.n = -a.n]

RLt(a, b) == a.n * b.d < b.n * a.d

RLe(a, b) == a.n * b.d <= b.n * a.d

RGt(a, b) == RLt(b, a)

RIsZero(a) == a.n = 0

\* Python comparison x <= y where x may be float("inf")
LeqInf(x, y) == IF x.k = "inf" THEN FALSE ELSE RLe(x, y)

(***************************************************************************)
(* Text: period strings as sequences of characters                         *)
(***************************************************************************)
DigitChars == {"0", "1", "2", "3", "4", "5", "6", "7", "8", "9"}

DigitValue(c) ==
    CASE c = "0" -> 0 [] c = "1" -> 1 [] c = "2" -> 2 [] c = "3" -> 3
      [] c = "4" -> 4 [] c = "5" -> 5 [] c = "6" -> 6 [] c = "7" -> 7
      [] c = "8" -> 8 [] c = "9" -> 9

DigitChar(v) ==
    CASE v = 0 -> "0" [] v = 1 -> "1" [] v = 2 -> "2" [] v = 3 -> "3"
      [] v = 4 -> "4" [] v = 5 -> "5" [] v = 6 -> "6" [] v = 7 -> "7"
      [] v = 8 -> "8" [] v = 9 -> "9"

\* str.upper() on the letters that occur in period texts
Upper(c) ==
    CASE c = "q" -> "Q" [] c = "f" -> "F" [] c = "y" -> "Y" [] c = "i" -> "I"
      [] c = "s" -> "S" [] c = "c" -> "C" [] c = "a" -> "A" [] c = "l" -> "L"
      [] c = "e" -> "E" [] c = "r" -> "R" [] OTHER -> c

UpperStr(s) == [i \in 1..Len(s) |-> Upper(s[i])]

IsSpace(c) == c = " "

RECURSIVE LStrip(_)
LStrip(s) == IF s # <<>> /\ IsSpace(Head(s)) THEN LStrip(Tail(s)) ELSE s

RECURSIVE RStrip(_)
RStrip(s) ==
    IF s # <<>> /\ IsSpace(s[Len(s)]) THEN RStrip(SubSeq(s, 1, Len(s) - 1)) ELSE s

\* str.strip()
Strip(s) == RStrip(LStrip(s))

\* the literal lit occurs in s at position i
HasAt(s, i, lit) ==
    /\ i + Len(lit) - 1 <= Len(s)
    /\ \A j \in 1..Len(lit) : s[i + j - 1] = lit[j]

\* \d{n} matches in s at position i
DigitsAt(s, i, n) ==
    /\ i + n - 1 <= Len(s)
    /\ \A j \in 0..(n - 1) : s[i + j] \in DigitChars

RECURSIVE IntAt(_, _, _)
\* int() of the n digits of s that start at position i
IntAt(s, i, n) ==
    IF n = 0 THEN 0
    ELSE IntAt(s, i, n - 1) * 10 + DigitValue(s[i + n - 1])

RECURSIVE SkipSpaces(_, _)
\* \s* from position i: the first position that holds no whitespace
SkipSpaces(s, i) ==
    IF i <= Len(s) /\ IsSpace(s[i]) THEN SkipSpaces(s, i + 1) ELSE i

\* (?:FY)?(\d{4}) at position i: the position of the four digits, 0 if no match
OptFYYear(s, i) ==
    IF HasAt(s, i, <<"F", "Y">>) /\ DigitsAt(s, i + 2, 4) THEN i + 2
    ELSE IF DigitsAt(s, i, 4) THEN i
    ELSE 0

NoPeriod == <<>>

parse_period(period_str) ==
    LET Pick(s, y1, y2, m3, y4, y5) ==
            IF y1 # 0 THEN <<IntAt(s, y1, 4), IntAt(s, 2, 1)>>
            ELSE IF y2 # 0 THEN <<IntAt(s, y2, 4), IntAt(s, 1, 1)>>
            ELSE IF m3 THEN <<2000 + IntAt(s, 3, 2), IntAt(s, 1, 1)>>
            ELSE IF y4 # 0 THEN <<IntAt(s, y4, 4), 0>>
            ELSE IF y5 # 0 THEN <<IntAt(s, y5, 4), 0>>
            ELSE NoPeriod
        \* "FISCAL 2024", "FISCAL YEAR 2024": f5 is the position after "FISCAL\s*"
        Fiscal(s, f5, g5) ==
            IF ~HasAt(s, 1, <<"F", "I", "S", "C", "A", "L">>) THEN 0
            ELSE IF HasAt(s, f5, <<"Y", "E", "A", "R">>) /\ DigitsAt(s, g5, 4) THEN g5
            ELSE IF DigitsAt(s, f5, 4) THEN f5
            ELSE 0
        Match(s, after_q, after_fy, f5) ==
            Pick(s,
                 \* "Q3 2024", "Q3 FY2024"
                 IF HasAt(s, 1, <<"Q">>) /\ DigitsAt(s, 2, 1)
                 THEN OptFYYear(s, after_q) ELSE 0,
                 \* "3Q 2024", "3Q2024"
                 IF DigitsAt(s, 1, 1) /\ HasAt(s, 2, <<"Q">>)
                 THEN OptFYYear(s, after_q) ELSE 0,
                 \* "3Q24"
                 DigitsAt(s, 1, 1) /\ HasAt(s, 2, <<"Q">>) /\ DigitsAt(s, 3, 2)
                   /\ Len(s) = 4,
                 \* "FY 2024", "FY2024"
                 IF HasAt(s, 1, <<"F", "Y">>) /\ DigitsAt(s, after_fy, 4)
                 THEN after_fy ELSE 0,
                 Fiscal(s, f5, SkipSpaces(s, f5 + 4)))
        Parse(s) == Match(s, SkipSpaces(s, 3), SkipSpaces(s, 3), SkipSpaces(s, 7))
    IN  IF period_str = <<>> THEN NoPeriod
        ELSE Parse(UpperStr(Strip(period_str)))

RECURSIVE RenderInt(_)
\* str(n) for n >= 0
RenderInt(n) ==
    IF n < 10 THEN <<DigitChar(n)>>
    ELSE RenderInt(n \div 10) \o <<DigitChar(n % 10)>>

\* f"Q{quarter} {year}"
QLabel(year, quarter) == <<"Q">> \o RenderInt(quarter) \o <<" ">> \o RenderInt(year)

\* a label that keeps the last two digits of the year only
FYLabelTwoDigit(year) == <<"F", "Y", " ">> \o RenderInt(year % 100)

\* f"FY {year}"
FYLabel(year) == <<"F", "Y", " ">> \o RenderInt(year)

(***************************************************************************)
(* Text: quotes as sets of vocabulary phrases                              *)
(***************************************************************************)
Vocabulary ==
    { "revenue was", "grew",
      "trailing twelve months", "trailing 12-month", "ttm", "last 12 months",
      "past year", "first half", "first nine months", "year-to-date",
      "year to date", "ytd",
      "including finance leases", "total expenses", "net revenue",
      "december quarter", "adjusted", "non-gaap", "iphone",
      "expanded 70 basis points", "50 basis points of contraction",
      "deleveraged 46 basis points", "margin was up",
      "sequentially", "year over year", "sg&a",
      "operating cash flow", "free cash flow", "net cash", "capex" }

\* pattern.search(quote_lower) / any(kw in quote_lower for kw in keywords);
\* each pattern or keyword tuple of the code is the set of the vocabulary's
\* phrases it matches
Matches(quote, keywords) == quote \cap keywords # {}

TTM_KEYWORDS ==
    { "trailing twelve months", "trailing 12-month", "ttm", "last 12 months",
      "past year", "first half", "first nine months", "year-to-date",
      "year to date", "ytd" }

CAPEX_LEASE_KEYWORDS == { "including finance leases" }

TOTAL_EXPENSES_KEYWORDS == { "total expenses" }

BPS_CHANGE_KEYWORDS == { "expanded 70 basis points", "deleveraged 46 basis points" }

BPS_CHANGE_KEYWORDS2 == { "50 basis points of contraction" }

SEGMENT_KEYWORDS == { "iphone" }

MONTH_QUARTER_KEYWORDS == { "december quarter" }

BPS_NEGATIVE_WORDS == { "50 basis points of contraction" }

BPS_POSITIVE_WORDS == { "expanded 70 basis points", "margin was up" }

SEQUENTIAL_WORDS == { "sequentially" }

YOY_WORDS == { "year over year" }

\* the keyword tuples tested inline by _determine_multiperiod_periods
TTM_WINDOW_WORDS ==
    { "trailing twelve months", "trailing 12-month", "ttm", "last 12 months",
      "past year" }

FIRST_HALF_WORDS == { "first half" }

FIRST_NINE_MONTHS_WORDS == { "first nine months" }

YTD_WORDS == { "year-to-date", "ytd" }

NET_REVENUE_WORDS == { "net revenue" }

NONGAAP_KEYWORDS == { "adjusted", "non-gaap" }

ANNUAL_SUM_METRICS ==
    { "revenue", "net_income", "gross_profit", "operating_income", "ebitda",
      "free_cash_flow", "operating_cash_flow", "cost_of_revenue",
      "capital_expenditures", "operating_expenses", "research_and_development" }

SEGMENT_METRICS ==
    { "revenue", "cost_of_revenue", "gross_profit", "operating_income",
      "net_income", "operating_expenses", "research_and_development" }

VALUE_CHECK_METRICS ==
    { "revenue", "cost_of_revenue", "gross_profit", "operating_income",
      "operating_expenses", "capital_expenditures", "net_income",
      "free_cash_flow", "operating_cash_flow" }

CAPEX_METRICS == { "capital_expenditures", "capital_expenditure" }

TOTAL_CONTEXTS == { "", "total", "company", "overall", "consolidated" }

\* (claim.get("metric_context") or "").strip().lower() on the contexts used
LowerContext(ctx) ==
    CASE ctx = "Total" -> "total" [] ctx = "iPhone" -> "iphone"
      [] ctx = "Company" -> "company" [] OTHER -> ctx

\* _is_segment_claim reading the quote only, the metric_context ignored
is_segment_claim_by_quote(claim) == Matches(claim.quote_text, SEGMENT_KEYWORDS)

is_segment_claim(claim) ==
    LET ctx == LowerContext(claim.metric_context)
    IN  IF ctx # "" /\ ctx \notin {"total", "company", "overall", "consolidated", ""}
        THEN TRUE
        ELSE Matches(claim.quote_text, SEGMENT_KEYWORDS)

remap_other_metric(metric, quote) ==
    IF metric # "other" THEN metric
    ELSE IF "net cash" \in quote THEN "net_cash"
    ELSE IF "free cash flow" \in quote THEN "free_cash_flow"
    ELSE IF "operating cash flow" \in quote THEN "operating_cash_flow"
    ELSE IF "capex" \in quote THEN "capital_expenditures"
    ELSE metric

(***************************************************************************)
(* Metric catalog and tolerance matrix                                     *)
(***************************************************************************)
Direct(field) ==
    [fmp_field |-> field, numerator |-> "", denominator |-> "", computation |-> "direct"]

Ratio(num, den) ==
    [fmp_field |-> "", numerator |-> num, denominator |-> den, computation |-> "ratio"]

DirectMetrics ==
    { "revenue", "eps_basic", "eps_diluted", "gross_profit", "operating_income",
      "net_income", "ebitda", "free_cash_flow", "operating_cash_flow",
      "cost_of_revenue", "capital_expenditures", "operating_expenses",
      "research_and_development", "cash_and_marketable_securities",
      "total_debt", "net_cash" }

METRIC_CATALOG ==
    [m \in DirectMetrics \cup {"gross_margin", "operating_margin"} |->
        CASE m = "gross_margin" -> Ratio("gross_profit", "revenue")
          [] m = "operating_margin" -> Ratio("operating_income", "revenue")
          [] OTHER -> Direct(m)]

InCatalog(metric) == metric \in DOMAIN METRIC_CATALOG

\* catalog.get("fmp_field", metric)
FmpField(metric) ==
    IF METRIC_CATALOG[metric].computation = "direct"
    THEN METRIC_CATALOG[metric].fmp_field ELSE metric

Tol(tight, loose, approx) ==
    [tight |-> Rat(tight, 1000), loose |-> Rat(loose, 1000), approx |-> Rat(approx, 1000)]

\* thresholds in thousandths: 5 is 0.005
TOLERANCES ==
    LET Row(m) ==
            CASE m \in {"revenue", "gross_profit", "cost_of_revenue"} -> <<5, 20, 50>>
              [] m \in {"eps_basic", "eps_diluted"} -> <<10, 20, 50>>
              [] m \in {"gross_margin", "operating_margin"} -> <<3, 10, 20>>
              [] m \in {"free_cash_flow", "capital_expenditures", "other"} -> <<20, 50, 100>>
              [] OTHER -> <<10, 30, 50>>
    IN  [m \in { "revenue", "net_income", "eps_basic", "eps_diluted", "gross_profit",
                 "gross_margin", "operating_income", "operating_margin", "ebitda",
                 "free_cash_flow", "operating_cash_flow", "cost_of_revenue",
                 "capital_expenditures", "operating_expenses",
                 "research_and_development", "other" } |->
            Tol(Row(m)[1], Row(m)[2], Row(m)[3])]

\* 0.015
EPS_ABSOLUTE_TOLERANCE == Rat(15, 1000)

GROWTH_RATE_TOLERANCE_PP == Num(1)

GROWTH_RATE_LOOSE_PP == Num(2)

APPROXIMATE_QUALIFIERS ==
    { "approximately", "about", "roughly", "nearly", "around", "close to" }

is_approximate(qualifiers) ==
    { qualifiers[i] : i \in 1..Len(qualifiers) } \cap APPROXIMATE_QUALIFIERS # {}

\* thresholds that shrink to half the tight one for an approximate claim
get_tolerance_halved(metric, is_approx) ==
    LET Pick(tol) ==
            IF is_approx
            THEN [tight |-> RDiv(tol.tight, Num(2)), loose |-> tol.tight]
            ELSE [tight |-> tol.tight, loose |-> tol.loose]
    IN  Pick(TOLERANCES[IF metric \in DOMAIN TOLERANCES THEN metric ELSE "other"])

get_tolerance(metric, is_approx) ==
    LET Pick(tol) ==
            IF is_approx
            THEN [tight |-> tol.approx, loose |-> RMul(tol.approx, Rat(3, 2))]
            ELSE [tight |-> tol.tight, loose |-> tol.loose]
    IN  Pick(TOLERANCES[IF metric \in DOMAIN TOLERANCES THEN metric ELSE "other"])

get_growth_tolerance(is_approx) ==
    IF is_approx
    THEN [tight |-> RMul(GROWTH_RATE_TOLERANCE_PP, Num(2)),
          loose |-> RMul(GROWTH_RATE_LOOSE_PP, Num(2))]
    ELSE [tight |-> GROWTH_RATE_TOLERANCE_PP, loose |-> GROWTH_RATE_LOOSE_PP]

(***************************************************************************)
(* extraction/normalizer.py                                                *)
(***************************************************************************)
\* the result of an arithmetic operation on None: a TypeError
Raise == [k |-> "raise", n |-> 0, d |-> 1]

Raises(a) == a.k = "raise"

\* SCALE_MULTIPLIERS.get(scale, 1); "" stands for None ("trillions" exceeds
\* the 32-bit integers of TLC and is left out)
SCALE_MULTIPLIERS(scale) ==
    CASE scale = "ones" -> 1
      [] scale = "thousands" -> 1000
      [] scale = "millions" -> 1000000
      [] scale = "billions" -> 1000000000
      [] OTHER -> 1

normalize_claimed_value(claimed_value, unit, scale) ==
    IF unit = "percent" THEN claimed_value
    ELSE IF unit = "basis_points"
         THEN IF IsNone(claimed_value) THEN Raise
              ELSE RDiv(claimed_value, Num(100))
    ELSE IF unit = "per_share" THEN claimed_value
    ELSE IF unit = "ratio" THEN claimed_value
    ELSE IF IsNone(claimed_value) THEN Raise
    ELSE RMul(claimed_value, Num(SCALE_MULTIPLIERS(scale)))

(***************************************************************************)
(* verification/compute.py                                                 *)
(***************************************************************************)
compute_yoy_growth(current, prior) ==
    IF RIsZero(prior) THEN None
    ELSE RMul(RDiv(RSub(current, prior), RAbs(prior)), Num(100))

compute_qoq_growth(current, prior) ==
    IF RIsZero(prior) THEN None
    ELSE RMul(RDiv(RSub(current, prior), RAbs(prior)), Num(100))

compute_margin(numerator, denominator) ==
    IF RIsZero(denominator) THEN None
    ELSE RMul(RDiv(numerator, denominator), Num(100))

\* claimed is a number here; callers reach it with None only to raise
verify_absolute(claimed, actual) ==
    LET Compare(diff) ==
            [difference |-> diff,
             difference_pct |->
                IF ~RIsZero(actual) THEN RMul(RAbs(RDiv(diff, actual)), Num(100))
                ELSE IF ~RIsZero(claimed) THEN Inf ELSE Num(0)]
    IN  Compare(RSub(claimed, actual))

\* verify_growth without the test for a zero prior value: the division raises
verify_growth_unguarded(claimed_pct, current, prior) ==
    IF RIsZero(prior) \/ IsNone(claimed_pct)
    THEN [error |-> "", raised |-> TRUE, actual_pct |-> None,
          difference_pp |-> None, abs_difference_pp |-> None]
    ELSE [error |-> "", raised |-> FALSE,
          actual_pct |-> compute_yoy_growth(current, prior),
          difference_pp |-> RSub(claimed_pct, compute_yoy_growth(current, prior)),
          abs_difference_pp |->
              RAbs(RSub(claimed_pct, compute_yoy_growth(current, prior)))]

verify_growth(claimed_pct, current, prior) ==
    LET Compare(actual_growth) ==
            IF IsNone(actual_growth)
            THEN [error |-> "zero_denominator", raised |-> FALSE, actual_pct |-> None,
                  difference_pp |-> None, abs_difference_pp |-> None]
            ELSE IF IsNone(claimed_pct)
            THEN [error |-> "", raised |-> TRUE, actual_pct |-> actual_growth,
                  difference_pp |-> None, abs_difference_pp |-> None]
            ELSE [error |-> "", raised |-> FALSE, actual_pct |-> actual_growth,
                  difference_pp |-> RSub(claimed_pct, actual_growth),
                  abs_difference_pp |-> RAbs(RSub(claimed_pct, actual_growth))]
    IN  Compare(compute_yoy_growth(current, prior))

verify_margin(claimed_margin, numerator, denominator) ==
    LET Compare(actual_margin) ==
            IF IsNone(actual_margin)
            THEN [error |-> "zero_denominator", raised |-> FALSE, actual_margin |-> None,
                  difference_pp |-> None, abs_difference_pp |-> None]
            ELSE IF IsNone(claimed_margin)
            THEN [error |-> "", raised |-> TRUE, actual_margin |-> actual_margin,
                  difference_pp |-> None, abs_difference_pp |-> None]
            ELSE [error |-> "", raised |-> FALSE, actual_margin |-> actual_margin,
                  difference_pp |-> RSub(claimed_margin, actual_margin),
                  abs_difference_pp |-> RAbs(RSub(claimed_margin, actual_margin))]
    IN  Compare(compute_margin(numerator, denominator))

(***************************************************************************)
(* verification/period_resolver.py                                         *)
(***************************************************************************)
previous_quarter(year, quarter) ==
    IF quarter = 1 THEN <<year - 1, 4>> ELSE <<year, quarter - 1>>

\* a resolver whose quarter-over-quarter baseline stays in the target's year
resolve_periods_same_year(claim, transcript_year, transcript_quarter) ==
    LET Resolve(target, comp_parsed) ==
            IF target[2] = 0
            THEN [target |-> <<target[1], 0>>, baseline |-> NoPeriod, error |-> "full_year"]
            ELSE IF claim.claim_type = "yoy_growth"
            THEN IF claim.comparison_period # <<>> /\ comp_parsed # NoPeriod
                 THEN [target |-> target, baseline |-> comp_parsed, error |-> ""]
                 ELSE [target |-> target, baseline |-> <<target[1] - 1, target[2]>>,
                       error |-> ""]
            ELSE IF claim.claim_type = "qoq_growth"
            THEN [target |-> target,
                  baseline |-> IF target[2] = 1 THEN <<target[1], 4>>
                               ELSE <<target[1], target[2] - 1>>,
                  error |-> ""]
            ELSE [target |-> target, baseline |-> NoPeriod, error |-> ""]
        Target(parsed) ==
            IF parsed # NoPeriod THEN parsed ELSE <<transcript_year, transcript_quarter>>
    IN  Resolve(Target(parse_period(claim.period)), parse_period(claim.comparison_period))

\* 'baseline' is NoPeriod when the key is absent, 'error' is "" when absent
resolve_periods(claim, transcript_year, transcript_quarter) ==
    LET Resolve(target, comp_parsed) ==
            IF target[2] = 0
            THEN [target |-> <<target[1], 0>>, baseline |-> NoPeriod, error |-> "full_year"]
            ELSE IF claim.claim_type = "yoy_growth"
            THEN IF claim.comparison_period # <<>> /\ comp_parsed # NoPeriod
                 THEN [target |-> target, baseline |-> comp_parsed, error |-> ""]
                 ELSE [target |-> target, baseline |-> <<target[1] - 1, target[2]>>,
                       error |-> ""]
            ELSE IF claim.claim_type = "qoq_growth"
            THEN [target |-> target,
                  baseline |-> IF target[2] = 1 THEN <<target[1] - 1, 4>>
                               ELSE <<target[1], target[2] - 1>>,
                  error |-> ""]
            ELSE [target |-> target, baseline |-> NoPeriod, error |-> ""]
        Target(parsed) ==
            IF parsed # NoPeriod THEN parsed ELSE <<transcript_year, transcript_quarter>>
    IN  Resolve(Target(parse_period(claim.period)), parse_period(claim.comparison_period))

(***************************************************************************)
(* Fact store: fmp_data = [facts, aliases, sources]                        *)
(*   facts   : <<year, quarter, metric>> -> value                          *)
(*   aliases : the "_calendar_aliases" table, <<year, quarter>> -> period  *)
(*   sources : the "_metric_sources" table, <<year, quarter, metric>> ->   *)
(*             provenance tag                                              *)
(***************************************************************************)
NotFound == [found |-> FALSE, value |-> None, source |-> ""]

\* f"{source}_calendar_alias"
CalendarAliasTag(source) ==
    CASE source = "fmp" -> "fmp_calendar_alias"
      [] source = "sec_companyfacts" -> "sec_companyfacts_calendar_alias"
      [] OTHER -> "calendar_alias"

SourceOf(fmp, key) == IF key \in DOMAIN fmp.sources THEN fmp.sources[key] ELSE "fmp"

lookup_value(fmp, metric, year, quarter, use_calendar_alias) ==
    LET Aliased(fkey) ==
            IF fkey \in DOMAIN fmp.facts
            THEN [found |-> TRUE, value |-> fmp.facts[fkey],
                  source |-> CalendarAliasTag(SourceOf(fmp, fkey))]
            ELSE NotFound
        Lookup(key, yq) ==
            IF key \in DOMAIN fmp.facts
            THEN [found |-> TRUE, value |-> fmp.facts[key], source |-> SourceOf(fmp, key)]
            ELSE IF use_calendar_alias /\ yq \in DOMAIN fmp.aliases
            THEN Aliased(<<fmp.aliases[yq][1], fmp.aliases[yq][2], metric>>)
            ELSE NotFound
    IN  Lookup(<<year, quarter, metric>>, <<year, quarter>>)

\* a guard that asks for a period other than the transcript's only
should_use_calendar_alias_any_quote(claim, transcript_year, transcript_quarter) ==
    LET Decide(parsed) ==
            parsed # NoPeriod /\ parsed # <<transcript_year, transcript_quarter>>
    IN  Decide(parse_period(claim.period))

should_use_calendar_alias(claim, transcript_year, transcript_quarter) ==
    LET Decide(parsed) ==
            IF parsed = NoPeriod THEN FALSE
            ELSE IF parsed = <<transcript_year, transcript_quarter>> THEN FALSE
            ELSE Matches(claim.quote_text, MONTH_QUARTER_KEYWORDS)
    IN  Decide(parse_period(claim.period))

\* list(dict.fromkeys(xs)): first occurrences, in order
RECURSIVE Dedupe(_)
Dedupe(xs) ==
    LET Add(front, last) ==
            IF \E i \in 1..Len(front) : front[i] = last THEN front
            ELSE Append(front, last)
    IN  IF xs = <<>> THEN <<>>
        ELSE Add(Dedupe(SubSeq(xs, 1, Len(xs) - 1)), xs[Len(xs)])

Fact(field, year, quarter, value) ==
    [field |-> field, fy |-> year, fq |-> quarter, value |-> value]

RECURSIVE sum_present_periods(_, _, _, _)
\* a sum that returns the total of the periods it found
sum_present_periods(fmp, metric, periods, use_calendar_alias) ==
    LET Add(before, year, quarter, actual) ==
            IF ~actual.found
            THEN [before EXCEPT !.missing = Append(@, QLabel(year, quarter))]
            ELSE [before EXCEPT !.total = RAdd(@, actual.value),
                                !.partial = RAdd(@, actual.value),
                                !.sources = Dedupe(Append(@, actual.source)),
                                !.facts = Append(@, Fact(metric, year, quarter,
                                                         actual.value))]
    IN  IF periods = <<>>
        THEN [total |-> Num(0), partial |-> Num(0), sources |-> <<>>, facts |-> <<>>,
              missing |-> <<>>]
        ELSE Add(sum_present_periods(fmp, metric, SubSeq(periods, 1, Len(periods) - 1),
                                     use_calendar_alias),
                 periods[Len(periods)][1], periods[Len(periods)][2],
                 lookup_value(fmp, metric, periods[Len(periods)][1],
                              periods[Len(periods)][2], use_calendar_alias))

RECURSIVE sum_metric_for_periods(_, _, _, _)
\* returns total (None when a period is missing), sources, facts, missing labels
sum_metric_for_periods(fmp, metric, periods, use_calendar_alias) ==
    LET \* the running total is kept while periods are missing, as the code does
        Add(before, run, year, quarter, actual) ==
            IF ~actual.found
            THEN [total |-> None, partial |-> run, sources |-> before.sources,
                  facts |-> before.facts,
                  missing |-> Append(before.missing, QLabel(year, quarter))]
            ELSE [total |-> IF before.missing # <<>> THEN None
                            ELSE RAdd(run, actual.value),
                  partial |-> RAdd(run, actual.value),
                  sources |-> Dedupe(Append(before.sources, actual.source)),
                  facts |-> Append(before.facts,
                                   Fact(metric, year, quarter, actual.value)),
                  missing |-> before.missing]
        Last(before, year, quarter) ==
            Add(before, IF IsNone(before.total) THEN before.partial ELSE before.total,
                year, quarter, lookup_value(fmp, metric, year, quarter, use_calendar_alias))
    IN  IF periods = <<>>
        THEN [total |-> Num(0), partial |-> Num(0), sources |-> <<>>, facts |-> <<>>,
              missing |-> <<>>]
        ELSE Last(sum_metric_for_periods(fmp, metric, SubSeq(periods, 1, Len(periods) - 1),
                                         use_calendar_alias),
                  periods[Len(periods)][1], periods[Len(periods)][2])

full_year_periods(year) == << <<year, 1>>, <<year, 2>>, <<year, 3>>, <<year, 4>> >>

ttm_periods(target_year, target_quarter) ==
    LET Back3(p1, p2) == << <<target_year, target_quarter>>, p1, p2,
                            previous_quarter(p2[1], p2[2]) >>
        Back2(p1) == Back3(p1, previous_quarter(p1[1], p1[2]))
    IN  Back2(previous_quarter(target_year, target_quarter))

NoWindow == [periods |-> <<>>, label |-> ""]

\* returns NoWindow for None
determine_multiperiod_periods(quote, target_year, target_quarter) ==
    IF Matches(quote, TTM_WINDOW_WORDS)
    THEN [periods |-> ttm_periods(target_year, target_quarter), label |-> "TTM"]
    ELSE IF Matches(quote, FIRST_HALF_WORDS)
    THEN [periods |-> << <<target_year, 1>>, <<target_year, 2>> >>, label |-> "first_half"]
    ELSE IF Matches(quote, FIRST_NINE_MONTHS_WORDS)
    THEN [periods |-> << <<target_year, 1>>, <<target_year, 2>>, <<target_year, 3>> >>,
          label |-> "first_nine_months"]
    ELSE IF Matches(quote, YTD_WORDS) /\ target_quarter \in {1, 2, 3, 4}
    THEN [periods |-> [q \in 1..target_quarter |-> <<target_year, q>>], label |-> "ytd"]
    ELSE NoWindow

sum_full_year_metric(fmp, metric, year, use_calendar_alias) ==
    sum_metric_for_periods(fmp, metric, full_year_periods(year), use_calendar_alias)

(***************************************************************************)
(* misleading/heuristics.py                                                *)
(* Each heuristic returns the sequence of its flags; the reason texts are  *)
(* one per flag, in the same order, and are identified by the flag.        *)
(* The heuristics read the store directly: the claim's own metric_type     *)
(* under the exact (year, quarter) key, without alias.                     *)
(***************************************************************************)
HasFact(fmp, year, quarter, metric) == <<year, quarter, metric>> \in DOMAIN fmp.facts

check_cherry_picking_timeframe(claim, fmp, target_year, target_quarter) ==
    LET Flag(yoy_growth) ==
            IF IsNum(yoy_growth) /\ RLt(yoy_growth, Num(-5))
            THEN <<"cherry_picking_timeframe">> ELSE <<>>
        Check(metric) ==
            IF ~HasFact(fmp, target_year, target_quarter, metric)
                 \/ ~HasFact(fmp, target_year - 1, target_quarter, metric)
            THEN <<>>
            ELSE Flag(compute_yoy_growth(fmp.facts[<<target_year, target_quarter, metric>>],
                                         fmp.facts[<<target_year - 1, target_quarter,
                                                     metric>>]))
    IN  IF claim.claim_type # "qoq_growth" \/ ~IsNum(claim.claimed_value)
              \/ RLe(claim.claimed_value, Num(0))
        THEN <<>>
        ELSE Check(claim.metric_type)

\* the heuristic with the excess threshold at 25% in place of 15%
check_gaap_nongaap_mixing_quarter(claim, fmp, target_year, target_quarter) ==
    LET Check(gaap_value) ==
            IF RIsZero(gaap_value) THEN <<>>
            ELSE IF RGt(RDiv(RSub(claim.claimed_value, gaap_value), RAbs(gaap_value)),
                        Rat(25, 100))
                      /\ ~Matches(claim.quote_text, NONGAAP_KEYWORDS)
            THEN <<"gaap_nongaap_mixing">> ELSE <<>>
    IN  IF claim.gaap_classification # "unknown" \/ claim.claim_type # "absolute" THEN <<>>
        ELSE IF claim.metric_type \notin {"eps_basic", "eps_diluted", "ebitda"} THEN <<>>
        ELSE IF IsNone(claim.claimed_value) THEN <<>>
        ELSE IF ~HasFact(fmp, target_year, target_quarter, claim.metric_type) THEN <<>>
        ELSE Check(fmp.facts[<<target_year, target_quarter, claim.metric_type>>])

check_gaap_nongaap_mixing(claim, fmp, target_year, target_quarter) ==
    LET Check(gaap_value) ==
            IF RIsZero(gaap_value) THEN <<>>
            ELSE IF RGt(RDiv(RSub(claim.claimed_value, gaap_value), RAbs(gaap_value)),
                        Rat(15, 100))
                      /\ ~Matches(claim.quote_text, NONGAAP_KEYWORDS)
            THEN <<"gaap_nongaap_mixing">> ELSE <<>>
    IN  IF claim.gaap_classification # "unknown" \/ claim.claim_type # "absolute" THEN <<>>
        ELSE IF claim.metric_type \notin {"eps_basic", "eps_diluted", "ebitda"} THEN <<>>
        ELSE IF IsNone(claim.claimed_value) THEN <<>>
        ELSE IF ~HasFact(fmp, target_year, target_quarter, claim.metric_type) THEN <<>>
        ELSE Check(fmp.facts[<<target_year, target_quarter, claim.metric_type>>])

check_low_base_exaggeration(claim, fmp, target_year, target_quarter) ==
    LET Flag(baseline_value, revenue) ==
            IF RIsZero(revenue) THEN <<>>
            ELSE IF RLt(RDiv(RAbs(baseline_value), RAbs(revenue)), Rat(1, 100))
            THEN <<"low_base_exaggeration">> ELSE <<>>
        Check(baseline_yq) ==
            IF ~HasFact(fmp, baseline_yq[1], baseline_yq[2], claim.metric_type)
                 \/ ~HasFact(fmp, target_year, target_quarter, "revenue")
            THEN <<>>
            ELSE Flag(fmp.facts[<<baseline_yq[1], baseline_yq[2], claim.metric_type>>],
                      fmp.facts[<<target_year, target_quarter, "revenue">>])
    IN  IF claim.claim_type \notin {"yoy_growth", "qoq_growth"} THEN <<>>
        ELSE IF ~IsNum(claim.claimed_value) \/ RLt(RAbs(claim.claimed_value), Num(50))
        THEN <<>>
        ELSE Check(IF claim.claim_type = "yoy_growth" THEN <<target_year - 1, target_quarter>>
                   ELSE IF target_quarter > 1 THEN <<target_year, target_quarter - 1>>
                   ELSE <<target_year - 1, 4>>)

run_all_heuristics(claim, fmp, target_year, target_quarter) ==
    check_cherry_picking_timeframe(claim, fmp, target_year, target_quarter)
      \o check_gaap_nongaap_mixing(claim, fmp, target_year, target_quarter)
      \o check_low_base_exaggeration(claim, fmp, target_year, target_quarter)

(***************************************************************************)
(* verification/verdict_engine.py: the verdict record                      *)
(*   verdict  : "" until a label is assigned                               *)
(*   numeric  : the label assigned by the numeric comparison ("" if the    *)
(*              claim never reached one)                                   *)
(*   raised   : an exception escaped verify_single_claim, no verdict was   *)
(*              returned                                                   *)
(*   explanation : kind of the text, the missing-period labels and the     *)
(*              claim id it cites, and the sentences appended to it        *)
(* The formatted text of computation_detail is not modelled.               *)
(***************************************************************************)
Labels == {"verified", "close_match", "mismatch", "misleading", "unverifiable"}

NoExplanation == [kind |-> "", missing |-> <<>>, ref |-> "", notes |-> <<>>]

Expl(kind) == [NoExplanation EXCEPT !.kind = kind]

MissingExpl(missing) == [NoExplanation EXCEPT !.kind = "missing_periods", !.missing = missing]

InitialResult(claim) ==
    [claim_id |-> claim.claim_id,
     claimed_value |-> claim.claimed_value,
     actual_value |-> None,
     difference |-> None,
     difference_pct |-> None,
     tolerance_used |-> None,
     computation_steps |-> <<>>,
     financial_facts_used |-> <<>>,
     evidence_source |-> <<>>,
     flags |-> <<>>,
     misleading_flags |-> <<>>,
     misleading_reasons |-> <<>>,
     explanation |-> NoExplanation,
     verdict |-> "",
     numeric |-> "",
     raised |-> FALSE]

\* an early return that sets the explanation and the flags but no label
UnverifiableUnlabelled(result, explanation, flags) ==
    [result EXCEPT !.explanation = explanation, !.flags = @ \o flags]

\* result["verdict"] = "unverifiable"; explanation; flags.append(...); return
Unverifiable(result, explanation, flags) ==
    [result EXCEPT !.verdict = "unverifiable", !.explanation = explanation,
                   !.flags = @ \o flags]

\* a TypeError leaves verify_single_claim
Raised(result) == [result EXCEPT !.raised = TRUE]

Step(name, value) == [step |-> name, result |-> value]

\* the bands compared with < in place of <=
BandStrict(x, tol) ==
    IF x.k # "inf" /\ RLt(x, tol.tight) THEN "verified"
    ELSE IF x.k # "inf" /\ RLt(x, tol.loose) THEN "close_match"
    ELSE "mismatch"

\* if x <= tol["tight"]: verified / elif x <= tol["loose"]: close_match / else mismatch
Band(x, tol) ==
    IF LeqInf(x, tol.tight) THEN "verified"
    ELSE IF LeqInf(x, tol.loose) THEN "close_match"
    ELSE "mismatch"

\* ", ".join(sources) if sources else "fmp"
JoinSources(sources) == IF sources = <<>> THEN <<"fmp">> ELSE sources

\* _apply_misleading_checks escalating every label that carries a flag
WithMisleadingFlagsAnyLabel(result, flags) ==
    IF flags = <<>> THEN result
    ELSE [result EXCEPT !.misleading_flags = flags,
                        !.misleading_reasons = flags,
                        !.verdict = "misleading",
                        !.explanation.notes = Append(@, "however")]

\* _apply_misleading_checks, once the heuristics have run: a verified or
\* close_match verdict with a flag becomes misleading
WithMisleadingFlags(result, flags) ==
    IF flags = <<>> THEN result
    ELSE IF result.verdict \in {"verified", "close_match"}
    THEN [result EXCEPT !.misleading_flags = flags,
                        !.misleading_reasons = flags,
                        !.verdict = "misleading",
                        !.explanation.notes = Append(@, "however")]
    ELSE [result EXCEPT !.misleading_flags = flags,
                        !.misleading_reasons = flags]

\* pct_diff = abs(comp["difference"]) / abs(actual) if actual != 0 else inf
PctDiff(comp, actual) ==
    IF ~RIsZero(actual) THEN RDiv(RAbs(comp.difference), RAbs(actual)) ELSE Inf

\* the verdict of a percentage comparison written into the result
BandedComparison(result, comp, tol, actual, step, explanation) ==
    LET label == Band(PctDiff(comp, actual), tol)
    IN  [result EXCEPT !.verdict = label, !.numeric = label,
                       !.difference = comp.difference,
                       !.difference_pct = comp.difference_pct,
                       !.tolerance_used = tol.tight,
                       !.computation_steps = Append(@, step),
                       !.explanation = explanation]

\* _apply_misleading_checks
apply_misleading_checks(result, claim, fmp, target_year, target_quarter) ==
    IF result.verdict = "unverifiable" THEN result
    ELSE WithMisleadingFlags(result,
                             run_all_heuristics(claim, fmp, target_year, target_quarter))

\* ratio = normalized / actual_value, compared as lo < ratio < hi
RatioBetween(normalized, actual_value, lo, hi) ==
    LET Between(ratio) == RLt(lo, ratio) /\ RLt(ratio, hi)
    IN  Between(RDiv(normalized, actual_value))

\* returns the flag of the detected gap, "" for None; actual_value and
\* normalized are numbers
definition_gap_check(metric, normalized, actual_value, quote) ==
    LET Gap(ratio) ==
            IF metric \in {"cash_and_marketable_securities", "total_debt", "net_cash"}
                 /\ RGt(RDiv(RAbs(RSub(normalized, actual_value)), RAbs(actual_value)),
                        Rat(5, 100))
            THEN "balance_sheet_definition_gap"
            ELSE IF metric = "revenue" /\ RLt(Rat(50, 100), ratio) /\ RLt(ratio, Rat(80, 100))
                      /\ Matches(quote, NET_REVENUE_WORDS)
            THEN "bank_net_vs_gross_revenue"
            ELSE IF metric = "revenue" /\ RLt(Rat(50, 100), ratio) /\ RLt(ratio, Rat(80, 100))
            THEN "revenue_definition_mismatch"
            ELSE IF RGt(ratio, Rat(130, 100))
            THEN "value_exceeds_actual"
            ELSE IF metric \in CAPEX_METRICS /\ RLt(Rat(105, 100), ratio)
                      /\ RLt(ratio, Rat(150, 100))
            THEN "capex_definition_gap"
            ELSE IF metric \in CAPEX_METRICS /\ RLt(Rat(70, 100), ratio)
                      /\ RLt(ratio, Rat(95, 100))
            THEN "capex_definition_gap"
            ELSE IF metric = "free_cash_flow" /\ RLt(Rat(80, 100), ratio)
                      /\ RLt(ratio, Rat(96, 100))
            THEN "fcf_definition_gap"
            ELSE ""
    IN  IF RIsZero(actual_value) THEN "" ELSE Gap(RDiv(normalized, actual_value))

\* the comparison of a claimed value with an aggregated actual (the
\* multi-period and full-year paths share this code shape)
AggregateGap(r1, claim, fmp, metric, normalized, approx, total, step, explanation, target_year, target_quarter, def_gap) ==
    IF def_gap # "" THEN Unverifiable(r1, Expl(def_gap), <<def_gap>>)
    ELSE apply_misleading_checks(
           BandedComparison(r1, verify_absolute(normalized, total),
                            get_tolerance(metric, approx), total, step, explanation),
           claim, fmp, target_year, target_quarter)

CompareAggregate(result, claim, fmp, metric, normalized, approx, agg, stepName, kind, missing_flags, target_year, target_quarter) ==
    LET r1 == [result EXCEPT !.actual_value = agg.total,
                             !.evidence_source = JoinSources(agg.sources),
                             !.financial_facts_used = @ \o agg.facts]
    IN  IF IsNone(agg.total)
        THEN Unverifiable(result, MissingExpl(agg.missing), missing_flags)
        ELSE IF IsNone(normalized) THEN Raised(r1)
        ELSE AggregateGap(r1, claim, fmp, metric, normalized, approx, agg.total,
                          Step(stepName, agg.total), Expl(kind),
                          target_year, target_quarter,
                          definition_gap_check(metric, normalized, agg.total,
                                               claim.quote_text))

\* "Total expenses" = COGS + OpEx (verdict_engine.py, absolute branch).
\* Returns [taken, result]: taken is FALSE when the code falls through to
\* the ordinary lookup.
TotalExpensesFound(result, claim, fmp, metric, normalized, approx, target_year, target_quarter, cogs, opex) ==
    LET both == cogs.found /\ opex.found
        total_exp == IF cogs.found /\ opex.found THEN RAdd(cogs.value, opex.value)
                     ELSE None
        value_test == both /\ RGt(total_exp, Num(0))
        by_value ==
            /\ value_test
            /\ IsNum(normalized)
            /\ RGt(normalized, RMul(opex.value, Rat(12, 10)))
            /\ RatioBetween(normalized, total_exp, Rat(90, 100), Rat(110, 100))
    IN  IF value_test /\ IsNone(normalized)
        THEN [taken |-> TRUE, result |-> Raised(result)]
        ELSE IF ~((Matches(claim.quote_text, TOTAL_EXPENSES_KEYWORDS) \/ by_value) /\ both)
        THEN [taken |-> FALSE, result |-> result]
        ELSE IF IsNone(normalized)
        THEN [taken |-> TRUE, result |-> Raised(result)]
        ELSE [taken |-> TRUE,
              result |-> apply_misleading_checks(
                 BandedComparison(
                    [result EXCEPT
                        !.actual_value = total_exp,
                        !.evidence_source = <<"fmp (cost_of_revenue + operating_expenses)">>,
                        !.financial_facts_used = @ \o
                            << Fact("cost_of_revenue", target_year, target_quarter,
                                    cogs.value),
                               Fact("operating_expenses", target_year, target_quarter,
                                    opex.value) >>],
                    verify_absolute(normalized, total_exp), get_tolerance(metric, approx),
                    total_exp, Step("Total expenses = COGS + OpEx", total_exp),
                    Expl("total_expenses")),
                 claim, fmp, target_year, target_quarter)]

TotalExpensesCheck(result, claim, fmp, metric, normalized, approx, target_year, target_quarter, alias) ==
    IF metric # "operating_expenses" THEN [taken |-> FALSE, result |-> result]
    ELSE TotalExpensesFound(
           result, claim, fmp, metric, normalized, approx, target_year, target_quarter,
           lookup_value(fmp, "cost_of_revenue", target_year, target_quarter, alias),
           lookup_value(fmp, "operating_expenses", target_year, target_quarter, alias))

\* the quarterly absolute comparison without the fixed per-share tolerance:
\* the percentage bands decide every metric
AbsoluteVerdictBandsOnly(r2, metric, normalized, gaap, actual_value, comp, tol) ==
    LET r3 == BandedComparison(r2, comp, tol, actual_value,
                               Step("Absolute comparison", PctDiff(comp, actual_value)),
                               Expl("absolute_comparison"))
    IN  IF gaap = "unknown" /\ r3.verdict = "mismatch"
             /\ RGt(normalized, actual_value)
             /\ metric \in {"net_income", "eps_basic", "eps_diluted",
                            "operating_income", "ebitda"}
        THEN [r3 EXCEPT !.flags = Append(@, "possible_non_gaap_without_disclosure"),
                        !.verdict = "misleading",
                        !.explanation = Expl("exceeds_gaap_without_basis")]
        ELSE r3

\* the quarterly absolute comparison, from the lookup of the actual value on
AbsoluteVerdict(r2, metric, normalized, gaap, actual_value, comp, tol) ==
    LET abs_diff == RAbs(RSub(normalized, actual_value))
        r3 == BandedComparison(r2, comp, tol, actual_value,
                               Step("Absolute comparison", PctDiff(comp, actual_value)),
                               Expl("absolute_comparison"))
    IN  \* EPS: fixed absolute tolerance
        IF metric \in {"eps_basic", "eps_diluted"} /\ RLe(abs_diff, EPS_ABSOLUTE_TOLERANCE)
        THEN [r2 EXCEPT !.verdict = "verified", !.numeric = "verified",
                        !.difference = RSub(normalized, actual_value),
                        !.difference_pct =
                            IF ~RIsZero(actual_value)
                            THEN RMul(RDiv(abs_diff, RAbs(actual_value)), Num(100))
                            ELSE Num(0),
                        !.tolerance_used = EPS_ABSOLUTE_TOLERANCE,
                        !.computation_steps =
                            Append(@, Step("EPS absolute comparison", abs_diff)),
                        !.explanation = Expl("eps_verified")]
        \* claimed value exceeds GAAP without a stated basis
        ELSE IF gaap = "unknown" /\ r3.verdict = "mismatch"
                  /\ RGt(normalized, actual_value)
                  /\ metric \in {"net_income", "eps_basic", "eps_diluted",
                                 "operating_income", "ebitda"}
        THEN [r3 EXCEPT !.flags = Append(@, "possible_non_gaap_without_disclosure"),
                        !.verdict = "misleading",
                        !.explanation = Expl("exceeds_gaap_without_basis")]
        ELSE r3

AbsoluteGap(result, r2, claim, fmp, metric, normalized, approx, gaap, target_year, target_quarter, actual_value, def_gap) ==
    LET positive == RGt(actual_value, Num(0))
    IN  IF def_gap # "" THEN Unverifiable(r2, Expl(def_gap), <<def_gap>>)
        ELSE IF metric = "revenue" /\ positive
                  /\ RatioBetween(normalized, actual_value, Rat(50, 100), Rat(80, 100))
                  /\ Matches(claim.quote_text, NET_REVENUE_WORDS)
        THEN Unverifiable(result, Expl("bank_net_vs_gross_revenue"),
                          <<"bank_net_vs_gross_revenue">>)
        ELSE IF metric \in VALUE_CHECK_METRICS /\ positive
                  /\ RLt(normalized, RMul(actual_value, Rat(50, 100)))
        THEN Unverifiable(result, Expl("segment_claim_by_value"),
                          <<"segment_claim_by_value">>)
        ELSE IF metric = "revenue" /\ positive
                  /\ RatioBetween(normalized, actual_value, Rat(50, 100), Rat(80, 100))
        THEN Unverifiable(result, Expl("revenue_definition_mismatch"),
                          <<"revenue_definition_mismatch">>)
        ELSE IF positive /\ RGt(normalized, RMul(actual_value, Rat(130, 100)))
        THEN Unverifiable(result, Expl("value_exceeds_actual"), <<"value_exceeds_actual">>)
        ELSE IF metric \in CAPEX_METRICS /\ positive
                  /\ RatioBetween(normalized, actual_value, Rat(105, 100), Rat(150, 100))
        THEN Unverifiable(result, Expl("capex_definition_gap"), <<"capex_definition_gap">>)
        ELSE IF metric = "free_cash_flow" /\ positive
                  /\ RatioBetween(normalized, actual_value, Rat(80, 100), Rat(96, 100))
        THEN Unverifiable(result, Expl("fcf_definition_gap"), <<"fcf_definition_gap">>)
        ELSE apply_misleading_checks(
               AbsoluteVerdict(r2, metric, normalized, gaap, actual_value,
                               verify_absolute(normalized, actual_value),
                               get_tolerance(metric, approx)),
               claim, fmp, target_year, target_quarter)

AbsoluteFound(result, claim, fmp, metric, normalized, approx, gaap, target_year, target_quarter, actual) ==
    IF ~actual.found THEN Unverifiable(result, Expl("no_data"), <<>>)
    ELSE IF IsNone(normalized) THEN Raised(result)
    ELSE AbsoluteGap(result,
                     [result EXCEPT
                         !.actual_value = actual.value,
                         !.evidence_source = <<actual.source>>,
                         !.financial_facts_used =
                             Append(@, Fact(metric, target_year, target_quarter,
                                            actual.value))],
                     claim, fmp, metric, normalized, approx, gaap, target_year,
                     target_quarter, actual.value,
                     definition_gap_check(metric, normalized, actual.value,
                                          claim.quote_text))

AbsoluteQuarterly(result, claim, fmp, ticker, metric, normalized, approx, gaap, target_year, target_quarter, alias) ==
    AbsoluteFound(result, claim, fmp, metric, normalized, approx, gaap, target_year,
                  target_quarter,
                  lookup_value(fmp, FmpField(metric), target_year, target_quarter, alias))

\* the quarterly absolute branch: "total expenses" first, then the lookup
AbsoluteQuarter(result, claim, fmp, ticker, metric, normalized, approx, gaap, target_year, target_quarter, alias, total_expenses) ==
    IF total_expenses.taken THEN total_expenses.result
    ELSE AbsoluteQuarterly(result, claim, fmp, ticker, metric, normalized, approx, gaap,
                           target_year, target_quarter, alias)

AbsoluteMultiPeriod(result, claim, fmp, metric, normalized, approx, target_year, target_quarter, alias, period_info) ==
    IF metric \notin ANNUAL_SUM_METRICS
    THEN Unverifiable(result, Expl("multiperiod_unsupported_metric"),
                      <<"ttm_or_multiperiod">>)
    ELSE IF period_info = NoWindow
    THEN Unverifiable(result, Expl("multiperiod_unknown_window"), <<"ttm_or_multiperiod">>)
    ELSE CompareAggregate(result, claim, fmp, metric, normalized, approx,
                          sum_metric_for_periods(fmp, FmpField(metric), period_info.periods,
                                                 alias),
                          period_info.label, "multiperiod_sum", <<"ttm_or_multiperiod">>,
                          target_year, target_quarter)

\* the absolute branch with the multi-period test ahead of the segment test
AbsoluteNormalizedWindowFirst(result, claim, fmp, ticker, metric, approx, gaap, is_multiperiod_claim, target_year, target_quarter, transcript_quarter, alias, normalized) ==
    IF Raises(normalized) THEN Raised(result)
    ELSE IF is_multiperiod_claim
    THEN AbsoluteMultiPeriod(result, claim, fmp, metric, normalized, approx, target_year,
                             target_quarter, alias,
                             determine_multiperiod_periods(
                                 claim.quote_text, target_year,
                                 IF target_quarter \in {1, 2, 3, 4} THEN target_quarter
                                 ELSE transcript_quarter))
    ELSE IF metric \in SEGMENT_METRICS /\ is_segment_claim(claim)
    THEN Unverifiable(result, Expl("segment_claim"), <<"segment_claim">>)
    ELSE IF target_quarter = 0
    THEN IF metric \notin ANNUAL_SUM_METRICS
         THEN Unverifiable(result, Expl("full_year_unsupported_metric"), <<>>)
         ELSE CompareAggregate(result, claim, fmp, metric, normalized, approx,
                               sum_full_year_metric(fmp, FmpField(metric), target_year,
                                                    alias),
                               "Full-year aggregation", "full_year_sum", <<>>,
                               target_year, target_quarter)
    ELSE AbsoluteQuarter(result, claim, fmp, ticker, metric, normalized, approx, gaap,
                         target_year, target_quarter, alias,
                         TotalExpensesCheck(result, claim, fmp, metric, normalized, approx,
                                            target_year, target_quarter, alias))

AbsoluteNormalized(result, claim, fmp, ticker, metric, approx, gaap, is_multiperiod_claim, target_year, target_quarter, transcript_quarter, alias, normalized) ==
    IF Raises(normalized) THEN Raised(result)
    ELSE IF metric \in SEGMENT_METRICS /\ is_segment_claim(claim)
    THEN Unverifiable(result, Expl("segment_claim"), <<"segment_claim">>)
    ELSE IF is_multiperiod_claim
    THEN AbsoluteMultiPeriod(result, claim, fmp, metric, normalized, approx, target_year,
                             target_quarter, alias,
                             determine_multiperiod_periods(
                                 claim.quote_text, target_year,
                                 IF target_quarter \in {1, 2, 3, 4} THEN target_quarter
                                 ELSE transcript_quarter))
    ELSE IF target_quarter = 0
    THEN IF metric \notin ANNUAL_SUM_METRICS
         THEN Unverifiable(result, Expl("full_year_unsupported_metric"), <<>>)
         ELSE CompareAggregate(result, claim, fmp, metric, normalized, approx,
                               sum_full_year_metric(fmp, FmpField(metric), target_year,
                                                    alias),
                               "Full-year aggregation", "full_year_sum", <<>>,
                               target_year, target_quarter)
    ELSE AbsoluteQuarter(result, claim, fmp, ticker, metric, normalized, approx, gaap,
                         target_year, target_quarter, alias,
                         TotalExpensesCheck(result, claim, fmp, metric, normalized, approx,
                                            target_year, target_quarter, alias))

\* === ABSOLUTE CLAIMS ===: the claimed value is normalised first
VerifyAbsolute(result, claim, fmp, ticker, metric, approx, gaap, is_multiperiod_claim, target_year, target_quarter, transcript_quarter, alias) ==
    AbsoluteNormalized(result, claim, fmp, ticker, metric, approx, gaap,
                       is_multiperiod_claim, target_year, target_quarter,
                       transcript_quarter, alias,
                       normalize_claimed_value(claim.claimed_value, claim.unit,
                                               claim.scale))

\* the label of a growth comparison written into the result
GrowthVerdict(r1, comp, tol, stepName, explanation) ==
    LET label == Band(comp.abs_difference_pp, tol)
    IN  [r1 EXCEPT !.verdict = label, !.numeric = label,
                   !.difference = comp.difference_pp,
                   !.difference_pct = comp.abs_difference_pp,
                   !.tolerance_used = tol.tight,
                   !.computation_steps = Append(@, Step(stepName, comp.actual_pct)),
                   !.explanation = explanation]

\* Full-year YoY growth (FY YYYY vs FY YYYY-1)
GrowthFullYearCompared(r1, claim, fmp, target_year, target_quarter, comp, tol) ==
    IF comp.error # "" THEN Unverifiable(r1, Expl("prior_full_year_zero"), <<>>)
    ELSE IF comp.raised THEN Raised(r1)
    ELSE apply_misleading_checks(
           GrowthVerdict(r1, comp, tol, "Full-year YoY growth", Expl("full_year_growth")),
           claim, fmp, target_year, target_quarter)

GrowthFullYearSummed(result, claim, fmp, approx, target_year, target_quarter, current, prior) ==
    IF IsNone(current.total) \/ IsNone(prior.total)
    THEN Unverifiable(result, MissingExpl(Dedupe(current.missing \o prior.missing)), <<>>)
    ELSE GrowthFullYearCompared(
           [result EXCEPT
               !.actual_value = current.total,
               !.evidence_source = JoinSources(Dedupe(current.sources \o prior.sources)),
               !.financial_facts_used = @ \o current.facts \o prior.facts],
           claim, fmp, target_year, target_quarter,
           verify_growth(claim.claimed_value, current.total, prior.total),
           get_growth_tolerance(approx))

GrowthFullYear(result, claim, fmp, metric, approx, periods, target_year, target_quarter, alias) ==
    LET baseline_year == IF periods.baseline # NoPeriod THEN periods.baseline[1]
                         ELSE target_year - 1
        baseline_quarter == IF periods.baseline # NoPeriod THEN periods.baseline[2] ELSE 0
    IN  IF metric \notin ANNUAL_SUM_METRICS
        THEN Unverifiable(result, Expl("full_year_growth_unsupported_metric"), <<>>)
        ELSE IF baseline_quarter # 0
        THEN Unverifiable(result, Expl("full_year_baseline_required"), <<>>)
        ELSE GrowthFullYearSummed(
               result, claim, fmp, approx, target_year, target_quarter,
               sum_full_year_metric(fmp, FmpField(metric), target_year, alias),
               sum_full_year_metric(fmp, FmpField(metric), baseline_year, alias))

\* a supplemental step that takes the label down when the quarter shrank
WithQoQJudged(r2, claim_type, current_val, prev_q_actual) ==
    LET qoq_growth == IF prev_q_actual.found
                      THEN compute_qoq_growth(current_val, prev_q_actual.value) ELSE None
    IN  IF claim_type = "yoy_growth" /\ prev_q_actual.found /\ IsNum(qoq_growth)
        THEN [r2 EXCEPT !.computation_steps =
                            Append(@, Step("Supplemental QoQ discrepancy", qoq_growth)),
                        !.explanation.notes = Append(@, "qoq_reference"),
                        !.verdict = IF RLt(qoq_growth, Num(0)) THEN "mismatch" ELSE @]
        ELSE r2

\* a yoy claim's supplemental quarter-over-quarter step
WithQoQ(r2, claim_type, current_val, prev_q_actual) ==
    LET qoq_growth == IF prev_q_actual.found
                      THEN compute_qoq_growth(current_val, prev_q_actual.value) ELSE None
    IN  IF claim_type = "yoy_growth" /\ prev_q_actual.found /\ IsNum(qoq_growth)
        THEN [r2 EXCEPT !.computation_steps =
                            Append(@, Step("Supplemental QoQ discrepancy", qoq_growth)),
                        !.explanation.notes = Append(@, "qoq_reference")]
        ELSE r2

\* the growth comparison without the revenue definition test
GrowthComparedAnyDifference(r1, claim, fmp, metric, target_year, target_quarter, alias, current_val, comp, tol) ==
    IF comp.error # "" THEN Unverifiable(r1, Expl("prior_period_zero"), <<>>)
    ELSE IF comp.raised THEN Raised(r1)
    ELSE apply_misleading_checks(
           WithQoQ(GrowthVerdict(r1, comp, tol,
                                 IF claim.claim_type = "yoy_growth" THEN "YoY growth"
                                 ELSE "QoQ growth",
                                 Expl("growth_comparison")),
                   claim.claim_type, current_val,
                   lookup_value(fmp, FmpField(metric),
                                previous_quarter(target_year, target_quarter)[1],
                                previous_quarter(target_year, target_quarter)[2], alias)),
           claim, fmp, target_year, target_quarter)

GrowthCompared(r1, claim, fmp, metric, target_year, target_quarter, alias, current_val, comp, tol) ==
    IF comp.error # "" THEN Unverifiable(r1, Expl("prior_period_zero"), <<>>)
    ELSE IF comp.raised THEN Raised(r1)
    ELSE IF metric = "revenue" /\ RGt(RAbs(comp.difference_pp), Num(3))
              /\ ~(\E i \in 1..Len(r1.flags) : r1.flags[i] = "revenue_definition_mismatch")
    THEN Unverifiable(r1, Expl("revenue_growth_definition_mismatch"),
                      <<"revenue_growth_definition_mismatch">>)
    ELSE apply_misleading_checks(
           WithQoQ(GrowthVerdict(r1, comp, tol,
                                 IF claim.claim_type = "yoy_growth" THEN "YoY growth"
                                 ELSE "QoQ growth",
                                 Expl("growth_comparison")),
                   claim.claim_type, current_val,
                   lookup_value(fmp, FmpField(metric),
                                previous_quarter(target_year, target_quarter)[1],
                                previous_quarter(target_year, target_quarter)[2], alias)),
           claim, fmp, target_year, target_quarter)

GrowthFound(result, claim, fmp, metric, approx, baseline, target_year, target_quarter, alias, actual_current, actual_prior) ==
    IF ~actual_current.found \/ ~actual_prior.found
    THEN Unverifiable(result,
                      MissingExpl((IF ~actual_current.found
                                   THEN <<QLabel(target_year, target_quarter)>> ELSE <<>>)
                                  \o (IF ~actual_prior.found
                                      THEN <<QLabel(baseline[1], baseline[2])>>
                                      ELSE <<>>)),
                      <<>>)
    ELSE GrowthCompared(
           [result EXCEPT
               !.actual_value = actual_current.value,
               !.evidence_source = <<actual_current.source, actual_prior.source>>,
               !.financial_facts_used = @ \o
                   << Fact(metric, target_year, target_quarter, actual_current.value),
                      Fact(metric, baseline[1], baseline[2], actual_prior.value) >>],
           claim, fmp, metric, target_year, target_quarter, alias, actual_current.value,
           verify_growth(claim.claimed_value, actual_current.value, actual_prior.value),
           get_growth_tolerance(approx))

\* === GROWTH CLAIMS ===
VerifyGrowth(result, claim, fmp, metric, approx, periods, target_year, target_quarter, alias) ==
    IF metric \in SEGMENT_METRICS /\ is_segment_claim(claim)
    THEN Unverifiable(result, Expl("segment_growth_claim"), <<"segment_claim">>)
    ELSE IF target_quarter = 0
    THEN GrowthFullYear(result, claim, fmp, metric, approx, periods, target_year,
                        target_quarter, alias)
    ELSE IF periods.baseline = NoPeriod
    THEN Unverifiable(result, Expl("no_baseline"), <<>>)
    ELSE GrowthFound(result, claim, fmp, metric, approx, periods.baseline, target_year,
                     target_quarter, alias,
                     lookup_value(fmp, FmpField(metric), target_year, target_quarter, alias),
                     lookup_value(fmp, FmpField(metric), periods.baseline[1],
                                  periods.baseline[2], alias))

\* _signed_bps_value: the direction of a basis-point claim, from the wording
signed_bps_value(claimed_bps, quote) ==
    IF Matches(quote, BPS_NEGATIVE_WORDS) THEN RNeg(RAbs(claimed_bps))
    ELSE IF Matches(quote, BPS_POSITIVE_WORDS) THEN RAbs(claimed_bps)
    ELSE claimed_bps

\* returns NoPeriod for None
resolve_margin_change_baseline(claim, target_year, target_quarter, quote) ==
    LET Baseline(comp_parsed) ==
            IF claim.comparison_period # <<>> /\ comp_parsed # NoPeriod
                 /\ comp_parsed[2] \in {1, 2, 3, 4}
            THEN comp_parsed
            ELSE IF target_quarter \notin {1, 2, 3, 4} THEN NoPeriod
            ELSE IF Matches(quote, YOY_WORDS) THEN <<target_year - 1, target_quarter>>
            ELSE IF Matches(quote, SEQUENTIAL_WORDS)
            THEN previous_quarter(target_year, target_quarter)
            ELSE previous_quarter(target_year, target_quarter)
    IN  Baseline(parse_period(claim.comparison_period))

\* _lookup_num_with_fallback (closure of the margin branch)
lookup_num_with_fallback(fmp, num_field, year, quarter, alias) ==
    IF ~lookup_value(fmp, num_field, year, quarter, alias).found
         /\ num_field = "sga_expenses"
    THEN lookup_value(fmp, "operating_expenses", year, quarter, alias)
    ELSE lookup_value(fmp, num_field, year, quarter, alias)

\* _compute_full_year_margin: margin is None when a period is missing or the
\* summed denominator is zero
FullYearMargin(num, den) ==
    LET missing == Dedupe(num.missing \o den.missing)
        sources == Dedupe(num.sources \o den.sources)
        facts == num.facts \o den.facts
    IN  IF IsNone(num.total) \/ IsNone(den.total)
        THEN [margin |-> None, sources |-> sources, facts |-> facts, missing |-> missing]
        ELSE IF RIsZero(den.total)
        THEN [margin |-> None, sources |-> sources, facts |-> facts, missing |-> missing]
        ELSE [margin |-> RMul(RDiv(num.total, den.total), Num(100)), sources |-> sources,
              facts |-> facts, missing |-> <<>>]

compute_full_year_margin(fmp, numerator_metric, denominator_metric, year, alias) ==
    FullYearMargin(sum_full_year_metric(fmp, numerator_metric, year, alias),
                   sum_full_year_metric(fmp, denominator_metric, year, alias))

\* basis-point tolerances with both thresholds doubled for approximate claims
BpsToleranceDoubled(approx) ==
    [tight |-> IF ~approx THEN Num(25) ELSE Num(50),
     loose |-> IF ~approx THEN Num(75) ELSE Num(150)]

\* tight_bps = 25.0 if not approx else 50.0; loose_bps = 75.0 if not approx else 100.0
BpsTolerance(approx) ==
    [tight |-> IF ~approx THEN Num(25) ELSE Num(50),
     loose |-> IF ~approx THEN Num(75) ELSE Num(100)]

\* the basis-point change of the margin between the two periods, compared
MarginChangeFound(result, claim, fmp, num_field, den_field, approx, target_year, target_quarter, baseline, num_current, den_current, num_prior, den_prior) ==
    LET actual_change_bps ==
            RMul(RSub(RMul(RDiv(num_current.value, den_current.value), Num(100)),
                      RMul(RDiv(num_prior.value, den_prior.value), Num(100))),
                 Num(100))
        diff_bps == RSub(signed_bps_value(claim.claimed_value, claim.quote_text),
                         actual_change_bps)
        tol == BpsTolerance(approx)
        label == Band(RAbs(diff_bps), tol)
    IN  IF ~num_current.found \/ ~den_current.found \/ ~num_prior.found
             \/ ~den_prior.found
        THEN Unverifiable(result,
                          MissingExpl((IF ~num_current.found \/ ~den_current.found
                                       THEN <<QLabel(target_year, target_quarter)>>
                                       ELSE <<>>)
                                      \o (IF ~num_prior.found \/ ~den_prior.found
                                          THEN <<QLabel(baseline[1], baseline[2])>>
                                          ELSE <<>>)),
                          <<"margin_change_bps">>)
        ELSE IF RIsZero(den_current.value) \/ RIsZero(den_prior.value)
        THEN Unverifiable(result, Expl("denominator_zero"), <<"margin_change_bps">>)
        ELSE IF IsNone(claim.claimed_value) THEN Raised(result)
        ELSE apply_misleading_checks(
               [result EXCEPT
                   !.verdict = label, !.numeric = label,
                   !.actual_value = actual_change_bps,
                   !.difference = diff_bps,
                   !.difference_pct = RAbs(diff_bps),
                   !.tolerance_used = tol.tight,
                   !.evidence_source = Dedupe(<<num_current.source, den_current.source,
                                                num_prior.source, den_prior.source>>),
                   !.financial_facts_used = @ \o
                       << Fact(num_field, target_year, target_quarter, num_current.value),
                          Fact(den_field, target_year, target_quarter, den_current.value),
                          Fact(num_field, baseline[1], baseline[2], num_prior.value),
                          Fact(den_field, baseline[1], baseline[2], den_prior.value) >>,
                   !.computation_steps =
                       Append(@, Step("Margin change in bps", actual_change_bps)),
                   !.explanation = Expl("margin_change")],
               claim, fmp, target_year, target_quarter)

MarginChangeBaseline(result, claim, fmp, num_field, den_field, approx, target_year, target_quarter, alias, baseline) ==
    IF baseline = NoPeriod
    THEN Unverifiable(result, Expl("margin_change_no_baseline"), <<"margin_change_bps">>)
    ELSE MarginChangeFound(
           result, claim, fmp, num_field, den_field, approx, target_year, target_quarter,
           baseline,
           lookup_num_with_fallback(fmp, num_field, target_year, target_quarter, alias),
           lookup_value(fmp, den_field, target_year, target_quarter, alias),
           lookup_num_with_fallback(fmp, num_field, baseline[1], baseline[2], alias),
           lookup_value(fmp, den_field, baseline[1], baseline[2], alias))

\* Basis-point margin change claims (e.g., "margin expanded 70 bps")
MarginChangeBps(result, claim, fmp, num_field, den_field, approx, target_year, target_quarter, alias) ==
    MarginChangeBaseline(result, claim, fmp, num_field, den_field, approx, target_year,
                         target_quarter, alias,
                         resolve_margin_change_baseline(claim, target_year, target_quarter,
                                                        claim.quote_text))

\* tolerances of the catalog are fractions; margins are compared in points
PpTolerance(tol) ==
    [tight |-> RMul(tol.tight, Num(100)), loose |-> RMul(tol.loose, Num(100))]

\* Full-year absolute margin (FY YYYY), once the year's margin is computed
MarginFullYearCompared(result, claim, fmp, target_year, target_quarter, fy, tol_pp) ==
    LET diff_pp == RSub(claim.claimed_value, fy.margin)
        label == Band(RAbs(RSub(claim.claimed_value, fy.margin)), tol_pp)
    IN  IF IsNone(fy.margin)
        THEN IF fy.missing # <<>> THEN Unverifiable(result, MissingExpl(fy.missing), <<>>)
             ELSE Unverifiable(result, Expl("denominator_zero"), <<>>)
        ELSE IF IsNone(claim.claimed_value) THEN Raised(result)
        ELSE apply_misleading_checks(
               [result EXCEPT
                   !.verdict = label, !.numeric = label,
                   !.actual_value = fy.margin,
                   !.difference = diff_pp,
                   !.difference_pct = RAbs(diff_pp),
                   !.tolerance_used = tol_pp.tight,
                   !.evidence_source = JoinSources(fy.sources),
                   !.financial_facts_used = @ \o fy.facts,
                   !.computation_steps = Append(@, Step("Full-year margin", fy.margin)),
                   !.explanation = Expl("full_year_margin")],
               claim, fmp, target_year, target_quarter)

MarginFullYearFirst(result, claim, fmp, num_field, den_field, tolerance_metric, approx, target_year, target_quarter, alias, first) ==
    MarginFullYearCompared(
        result, claim, fmp, target_year, target_quarter,
        IF IsNone(first.margin) /\ num_field = "sga_expenses"
        THEN compute_full_year_margin(fmp, "operating_expenses", den_field, target_year,
                                      alias)
        ELSE first,
        PpTolerance(get_tolerance(tolerance_metric, approx)))

\* Full-year absolute margin (FY YYYY)
MarginFullYear(result, claim, fmp, num_field, den_field, tolerance_metric, approx, target_year, target_quarter, alias) ==
    MarginFullYearFirst(result, claim, fmp, num_field, den_field, tolerance_metric, approx,
                        target_year, target_quarter, alias,
                        compute_full_year_margin(fmp, num_field, den_field, target_year,
                                                 alias))

\* the quarterly margin comparison
MarginCompared(r1, claim, fmp, target_year, target_quarter, comp, tol_pp) ==
    LET label == Band(comp.abs_difference_pp, tol_pp)
    IN  IF comp.error # "" THEN Unverifiable(r1, Expl("denominator_zero"), <<>>)
        ELSE IF comp.raised THEN Raised(r1)
        ELSE apply_misleading_checks(
               [r1 EXCEPT !.verdict = label, !.numeric = label,
                          !.actual_value = comp.actual_margin,
                          !.difference = comp.difference_pp,
                          !.difference_pct = comp.abs_difference_pp,
                          !.tolerance_used = tol_pp.tight,
                          !.computation_steps =
                              Append(@, Step("Compute margin", comp.actual_margin)),
                          !.explanation = Expl("margin_comparison")],
               claim, fmp, target_year, target_quarter)

MarginFound(result, claim, fmp, num_field, den_field, tolerance_metric, approx, target_year, target_quarter, num_actual, den_actual) ==
    IF ~num_actual.found \/ ~den_actual.found
    THEN Unverifiable(result, Expl("missing_margin_data"), <<>>)
    ELSE MarginCompared(
           [result EXCEPT
               !.evidence_source = <<num_actual.source, den_actual.source>>,
               !.financial_facts_used = @ \o
                   << Fact(num_field, target_year, target_quarter, num_actual.value),
                      Fact(den_field, target_year, target_quarter, den_actual.value) >>],
           claim, fmp, target_year, target_quarter,
           verify_margin(claim.claimed_value, num_actual.value, den_actual.value),
           PpTolerance(get_tolerance(tolerance_metric, approx)))

\* === MARGIN CLAIMS ===
VerifyMargin(result, claim, fmp, metric, approx, is_bps_margin_change, target_year, target_quarter, alias) ==
    LET opex_ratio == metric = "operating_expenses"
        num_field == IF metric = "operating_expenses"
                     THEN (IF "sg&a" \in claim.quote_text THEN "sga_expenses"
                           ELSE "operating_expenses")
                     ELSE METRIC_CATALOG[metric].numerator
        den_field == IF metric = "operating_expenses" THEN "revenue"
                     ELSE METRIC_CATALOG[metric].denominator
        tolerance_metric == IF metric = "operating_expenses" THEN "operating_margin"
                            ELSE metric
    IN  IF is_segment_claim(claim)
        THEN Unverifiable(result, Expl("segment_margin_claim"), <<"segment_claim">>)
        ELSE IF ~opex_ratio /\ METRIC_CATALOG[metric].computation # "ratio"
        THEN Unverifiable(result, Expl("cannot_compute_margin"), <<>>)
        ELSE IF is_bps_margin_change
        THEN MarginChangeBps(result, claim, fmp, num_field, den_field, approx, target_year,
                             target_quarter, alias)
        ELSE IF target_quarter = 0
        THEN MarginFullYear(result, claim, fmp, num_field, den_field, tolerance_metric,
                            approx, target_year, target_quarter, alias)
        ELSE MarginFound(result, claim, fmp, num_field, den_field, tolerance_metric, approx,
                         target_year, target_quarter,
                         lookup_num_with_fallback(fmp, num_field, target_year,
                                                  target_quarter, alias),
                         lookup_value(fmp, den_field, target_year, target_quarter, alias))

\* f"unsupported_claim_type_{claim_type}"
UnsupportedFlag(claim_type) ==
    CASE claim_type = "comparison" -> "unsupported_claim_type_comparison"
      [] claim_type = "other" -> "unsupported_claim_type_other"
      [] OTHER -> "unsupported_claim_type_"

\* the metric the claim is verified as: remap_other_metric, then the
\* "operating cash flow" misclassified as free_cash_flow
ClaimMetric(claim) ==
    IF remap_other_metric(claim.metric_type, claim.quote_text) = "free_cash_flow"
         /\ "operating cash flow" \in claim.quote_text
    THEN "operating_cash_flow"
    ELSE remap_other_metric(claim.metric_type, claim.quote_text)

\* verify_single_claim from the early exits on, with the metric, the periods
\* and the calendar-alias decision computed
VerifyResolved(claim, ticker, transcript_quarter, fmp, metric, periods, alias) ==
    LET claim_type == claim.claim_type
        quote == claim.quote_text
        gaap == claim.gaap_classification
        approx == claim.is_approximate \/ is_approximate(claim.qualifiers)
        result == InitialResult(claim)
        is_multiperiod_claim == Matches(claim.quote_text, TTM_KEYWORDS)
        is_bps_margin_change ==
            /\ claim.claim_type = "margin"
            /\ (\/ Matches(claim.quote_text, BPS_CHANGE_KEYWORDS)
                \/ Matches(claim.quote_text, BPS_CHANGE_KEYWORDS2))
    IN  IF gaap = "non_gaap"
        THEN Unverifiable(result, Expl("non_gaap"), <<"non_gaap_claim">>)
        ELSE IF claim_type = "guidance"
        THEN Unverifiable(result, Expl("guidance"), <<"guidance_claim">>)
        ELSE IF metric \in CAPEX_METRICS /\ Matches(quote, CAPEX_LEASE_KEYWORDS)
        THEN Unverifiable(result, Expl("capex_includes_leases"), <<"capex_includes_leases">>)
        ELSE IF claim_type \in {"yoy_growth", "qoq_growth"} /\ claim.unit = "dollars"
        THEN Unverifiable(result, Expl("dollar_amount_growth"), <<"dollar_amount_growth">>)
        ELSE IF periods.error # ""
        THEN Unverifiable(result, Expl("cannot_verify_period"), <<>>)
        ELSE IF ~InCatalog(metric)
        THEN Unverifiable(result, Expl("metric_not_in_catalog"), <<>>)
        ELSE IF claim_type = "absolute"
        THEN VerifyAbsolute(result, claim, fmp, ticker, metric, approx, gaap,
                            is_multiperiod_claim, periods.target[1], periods.target[2],
                            transcript_quarter, alias)
        ELSE IF claim_type \in {"yoy_growth", "qoq_growth"}
        THEN VerifyGrowth(result, claim, fmp, metric, approx, periods, periods.target[1],
                          periods.target[2], alias)
        ELSE IF claim_type = "margin"
        THEN VerifyMargin(result, claim, fmp, metric, approx, is_bps_margin_change,
                          periods.target[1], periods.target[2], alias)
        ELSE Unverifiable(result, Expl("unsupported_claim_type"),
                          <<UnsupportedFlag(claim_type)>>)

verify_single_claim(claim, ticker, transcript_year, transcript_quarter, fmp) ==
    VerifyResolved(claim, ticker, transcript_quarter, fmp, ClaimMetric(claim),
                   resolve_periods(claim, transcript_year, transcript_quarter),
                   should_use_calendar_alias(claim, transcript_year, transcript_quarter))


(***************************************************************************)
(* pipeline.py                                                             *)
(***************************************************************************)
\* _shift_period_string: an unparseable period is returned as it is
shift_period_string(period_str, year_delta) ==
    LET Shift(parsed) ==
            IF parsed = NoPeriod THEN period_str
            ELSE IF parsed[2] = 0 THEN FYLabel(parsed[1] + year_delta)
            ELSE QLabel(parsed[1] + year_delta, parsed[2])
    IN  Shift(parse_period(period_str))

\* _claim_with_period_shift: a shifted copy, the claim itself when the delta is 0
claim_with_period_shift(claim, year_delta) ==
    IF year_delta = 0 THEN claim
    ELSE [claim EXCEPT !.period = shift_period_string(@, year_delta),
                       !.comparison_period = shift_period_string(@, year_delta)]

NoKey == <<>>

\* the grouping key of _downgrade_conflicting_mismatches, NoKey for an item
\* the first loop skips
GroupKey(item) ==
    LET Key(claim, parsed_period) ==
            IF claim.claim_type # "absolute" THEN NoKey
            ELSE IF item.verification.verdict \notin {"verified", "close_match", "mismatch"}
            THEN NoKey
            ELSE IF LowerContext(claim.metric_context) \notin TOTAL_CONTEXTS THEN NoKey
            ELSE IF parsed_period = NoPeriod THEN NoKey
            ELSE <<claim.metric_type, parsed_period, "total">>
    IN  Key(item.claim, parse_period(item.claim.period))

\* reference_idx of the group of item i: the first verified or close_match
\* item with the same key, 0 for None
ReferenceIdx(verdicts, i) ==
    LET First(refs) == IF refs = {} THEN 0 ELSE CHOOSE j \in refs : \A k \in refs : j <= k
        Group(key) ==
            IF key = NoKey THEN 0
            ELSE First({ j \in 1..Len(verdicts) :
                           /\ GroupKey(verdicts[j]) = key
                           /\ verdicts[j].verification.verdict
                                \in {"verified", "close_match"} })
    IN  Group(GroupKey(verdicts[i]))

\* the threshold test with 25 in place of 3.0
BelowWiderThreshold(diff_pct) ==
    IF IsNone(diff_pct) THEN TRUE
    ELSE IF diff_pct.k = "inf" THEN FALSE
    ELSE RLt(RAbs(diff_pct), Num(25))

\* diff_pct is None or abs(diff_pct) < 3.0
BelowConflictThreshold(diff_pct) ==
    IF IsNone(diff_pct) THEN TRUE
    ELSE IF diff_pct.k = "inf" THEN FALSE
    ELSE RLt(RAbs(diff_pct), Num(3))

\* the downgraded form of item i, citing the reference item
Downgraded(verdicts, i, reference_idx) ==
    [verdicts[i] EXCEPT
        !.verification.flags =
            IF \E k \in 1..Len(@) : @[k] = "conflicting_transcript_claim"
            THEN @ ELSE Append(@, "conflicting_transcript_claim"),
        !.verification.verdict = "unverifiable",
        !.verification.explanation =
            [NoExplanation EXCEPT !.kind = "conflicting_transcript_claim",
                                  !.ref = verdicts[reference_idx].claim.claim_id]]

\* _downgrade_conflicting_mismatches without the tests on the verdict: every
\* total-context absolute claim of a metric and period is grouped, and every
\* item of a group with a reference is downgraded but the verified ones
downgrade_every_conflict(verdicts) ==
    LET Key(item) ==
            IF item.claim.claim_type # "absolute"
                 \/ LowerContext(item.claim.metric_context) \notin TOTAL_CONTEXTS
                 \/ parse_period(item.claim.period) = NoPeriod
            THEN NoKey
            ELSE <<item.claim.metric_type, parse_period(item.claim.period), "total">>
        Refs(i) ==
            { j \in 1..Len(verdicts) :
                /\ Key(verdicts[i]) # NoKey
                /\ Key(verdicts[j]) = Key(verdicts[i])
                /\ verdicts[j].verification.verdict \in {"verified", "close_match"} }
        Item(i, refs) ==
            IF refs = {} \/ verdicts[i].verification.verdict \in {"verified", "close_match"}
            THEN verdicts[i]
            ELSE Downgraded(verdicts, i, CHOOSE j \in refs : \A k \in refs : j <= k)
    IN  [i \in 1..Len(verdicts) |-> Item(i, Refs(i))]

\* _downgrade_conflicting_mismatches without the test that the item is a
\* mismatch: any item of a group that is 3% or more off is downgraded
downgrade_without_mismatch_test(verdicts) ==
    LET Item(i, verification, reference_idx) ==
            IF reference_idx = 0 THEN verdicts[i]
            ELSE IF BelowConflictThreshold(verification.difference_pct) THEN verdicts[i]
            ELSE Downgraded(verdicts, i, reference_idx)
    IN  [i \in 1..Len(verdicts) |->
            Item(i, verdicts[i].verification, ReferenceIdx(verdicts, i))]

\* _downgrade_conflicting_mismatches that also flags the reference item of
\* each downgraded claim
downgrade_marking_reference(verdicts) ==
    LET Hit(i) ==
            /\ ReferenceIdx(verdicts, i) # 0
            /\ verdicts[i].verification.verdict = "mismatch"
            /\ ~BelowConflictThreshold(verdicts[i].verification.difference_pct)
        Item(i) ==
            IF Hit(i) THEN Downgraded(verdicts, i, ReferenceIdx(verdicts, i))
            ELSE IF \E k \in 1..Len(verdicts) : Hit(k) /\ ReferenceIdx(verdicts, k) = i
            THEN [verdicts[i] EXCEPT
                     !.verification.flags = Append(@, "reconciles_transcript_claim")]
            ELSE verdicts[i]
    IN  [i \in 1..Len(verdicts) |-> Item(i)]

downgrade_conflicting_mismatches(verdicts) ==
    LET Item(i, verification, reference_idx) ==
            IF reference_idx = 0 THEN verdicts[i]
            ELSE IF verification.verdict # "mismatch" THEN verdicts[i]
            ELSE IF BelowConflictThreshold(verification.difference_pct) THEN verdicts[i]
            ELSE Downgraded(verdicts, i, reference_idx)
    IN  [i \in 1..Len(verdicts) |->
            Item(i, verdicts[i].verification, ReferenceIdx(verdicts, i))]

\* the count of the labels the numeric comparison gave, before escalation and
\* downgrade
CountNumericLabel(verdicts, label) ==
    Cardinality({ i \in 1..Len(verdicts) : verdicts[i].verification.numeric = label })

CountLabel(verdicts, label) ==
    Cardinality({ i \in 1..Len(verdicts) : verdicts[i].verification.verdict = label })

\* file_summary of run_verification
file_summary(verdicts) ==
    [total |-> Len(verdicts),
     verified |-> CountLabel(verdicts, "verified"),
     close_match |-> CountLabel(verdicts, "close_match"),
     mismatch |-> CountLabel(verdicts, "mismatch"),
     misleading |-> CountLabel(verdicts, "misleading"),
     unverifiable |-> CountLabel(verdicts, "unverifiable")]


\* _derive_transcript_period_override: the fiscal period named by the
\* transcript's source_url when it matches, else the period of the file key
derive_transcript_period_override(transcript) ==
    IF transcript.source_period = NoPeriod
    THEN <<transcript.year, transcript.quarter>>
    ELSE transcript.source_period

\* a lookup that stores what it found through a calendar alias under the
\* period asked for
StoreWithCachedAlias(fmp, claim) ==
    LET yq == parse_period(claim.period)
        cached ==
            IF yq # NoPeriod /\ yq \in DOMAIN fmp.aliases
                 /\ Matches(claim.quote_text, MONTH_QUARTER_KEYWORDS)
            THEN { <<yq[1], yq[2], k[3]>> :
                     k \in { f \in DOMAIN fmp.facts : <<f[1], f[2]>> = fmp.aliases[yq] } }
                   \ DOMAIN fmp.facts
            ELSE {}
    IN  [fmp EXCEPT !.facts =
            [k \in DOMAIN fmp.facts \cup cached |->
                IF k \in DOMAIN fmp.facts THEN fmp.facts[k]
                ELSE fmp.facts[<<fmp.aliases[yq][1], fmp.aliases[yq][2], k[3]>>]]]

\* verify_single_claim and the lookups it calls read fmp_data through .get
\* and indexing only: the store after a call is the store before it
StoreAfterCall(fmp, claim) == fmp

\* the claim is read through claim.get only; the shifted claim is a copy
ClaimAfterCall(claim) == claim

(***************************************************************************)
(* Inputs: fact stores as load_fmp_data builds them (values never None),   *)
(* transcripts and extracted claims                                        *)
(***************************************************************************)
StoreOf(rows, aliases, sources) ==
    [facts |-> [k \in { <<r[1], r[2], r[3]>> : r \in rows } |->
                   (CHOOSE r \in rows : <<r[1], r[2], r[3]>> = k)[4]],
     aliases |-> aliases,
     sources |-> sources]

NoAliases == [k \in {} |-> NoPeriod]

NoSources == [k \in {} |-> ""]

\* four quarters of steady figures, one year back
NormalStore ==
    StoreOf({ <<2025, 1, "revenue", Num(100)>>, <<2025, 1, "cost_of_revenue", Num(60)>>,
              <<2025, 1, "gross_profit", Num(40)>>, <<2025, 1, "operating_income", Num(30)>>,
              <<2025, 1, "operating_expenses", Num(10)>>, <<2025, 1, "net_income", Num(20)>>,
              <<2025, 1, "eps_diluted", Rat(161, 100)>>,
              <<2025, 1, "free_cash_flow", Num(25)>>,
              <<2025, 1, "capital_expenditures", Num(8)>>,
              <<2024, 4, "revenue", Num(95)>>, <<2024, 4, "gross_profit", Num(38)>>,
              <<2024, 4, "operating_income", Rat(3477, 125)>>,
              <<2024, 4, "net_income", Num(19)>>,
              <<2024, 4, "eps_diluted", Rat(150, 100)>>,
              <<2024, 3, "revenue", Num(90)>>, <<2024, 2, "revenue", Num(85)>>,
              <<2024, 1, "revenue", Num(80)>>, <<2024, 1, "gross_profit", Num(30)>>,
              <<2024, 1, "operating_income", Num(20)>>, <<2024, 1, "net_income", Num(16)>>,
              <<2024, 1, "eps_diluted", Rat(120, 100)>> },
            NoAliases, NoSources)

\* small per-share figures, a tiny year-ago base, an SEC-sourced fact and a
\* calendar alias from Q4 2024 to fiscal Q1 2025
SparseStore ==
    StoreOf({ <<2025, 1, "revenue", Num(100)>>, <<2025, 1, "net_income", Num(1)>>,
              <<2025, 1, "eps_diluted", Rat(5, 100)>>,
              <<2024, 1, "net_income", Rat(1, 2)>>, <<2024, 1, "revenue", Num(120)>> },
            [k \in { <<2024, 4>> } |-> <<2025, 1>>],
            [k \in { <<2025, 1, "revenue">> } |-> "sec_companyfacts"])

\* a quarter without revenue, and no revenue in the year before it
ZeroStore ==
    StoreOf({ <<2025, 1, "revenue", Num(0)>>, <<2025, 1, "gross_profit", Num(40)>>,
              <<2025, 1, "operating_income", Num(30)>>,
              <<2025, 1, "operating_expenses", Num(10)>>, <<2025, 1, "net_income", Num(0)>>,
              <<2025, 1, "eps_diluted", Num(0)>>,
              <<2024, 4, "revenue", Num(0)>>, <<2024, 4, "gross_profit", Num(10)>>,
              <<2024, 4, "operating_income", Num(5)>>, <<2024, 4, "net_income", Num(0)>>,
              <<2024, 3, "revenue", Num(0)>>, <<2024, 2, "revenue", Num(0)>>,
              <<2024, 1, "revenue", Num(0)>>, <<2024, 1, "net_income", Num(0)>> },
            NoAliases, NoSources)

\* the current quarter as in NormalStore but for two cents of EPS, the
\* baseline quarters at zero
PriorZeroStore ==
    StoreOf({ <<2025, 1, "revenue", Num(100)>>, <<2025, 1, "gross_profit", Num(40)>>,
              <<2025, 1, "operating_income", Num(30)>>,
              <<2025, 1, "operating_expenses", Num(10)>>, <<2025, 1, "net_income", Num(20)>>,
              <<2025, 1, "eps_diluted", Rat(2, 100)>>,
              <<2024, 4, "revenue", Num(0)>>, <<2024, 4, "gross_profit", Num(38)>>,
              <<2024, 4, "operating_income", Num(19)>>, <<2024, 4, "net_income", Num(0)>>,
              <<2024, 1, "revenue", Num(0)>>, <<2024, 1, "gross_profit", Num(30)>>,
              <<2024, 1, "operating_income", Num(20)>>, <<2024, 1, "net_income", Num(0)>> },
            NoAliases, NoSources)

\* fiscal Q1 2025 and Q1 2024 on file, known to the alias table as the calendar
\* quarters Q4 2024 and Q4 2023
AliasStore ==
    StoreOf({ <<2025, 1, "revenue", Num(100)>>, <<2025, 1, "cost_of_revenue", Num(60)>>,
              <<2025, 1, "gross_profit", Num(40)>>,
              <<2025, 1, "operating_expenses", Num(10)>>, <<2025, 1, "net_income", Num(20)>>,
              <<2024, 1, "revenue", Num(80)>>, <<2024, 1, "net_income", Num(16)>> },
            [k \in { <<2024, 4>>, <<2023, 4>> } |-> <<k[1] + 1, 1>>],
            [k \in { <<2025, 1, "revenue">> } |-> "sec_companyfacts"])

\* four quarters of EBITDA and net income ending at Q1 2025
TrailingStore ==
    StoreOf({ <<2025, 1, "revenue", Num(100)>>, <<2025, 1, "ebitda", Num(25)>>,
              <<2025, 1, "net_income", Num(20)>>,
              <<2024, 4, "revenue", Num(95)>>, <<2024, 4, "ebitda", Num(30)>>,
              <<2024, 4, "net_income", Num(19)>>,
              <<2024, 3, "revenue", Num(90)>>, <<2024, 3, "ebitda", Num(20)>>,
              <<2024, 3, "net_income", Num(18)>>,
              <<2024, 2, "revenue", Num(85)>>, <<2024, 2, "ebitda", Num(25)>>,
              <<2024, 2, "net_income", Num(17)>> },
            NoAliases, NoSources)

Stores == { NormalStore, SparseStore, ZeroStore, PriorZeroStore }

\* a transcript file keyed Q1 2025, and one keyed Q1 2024 whose source_url
\* names Q1 2025
Transcript == [ticker |-> "AAPL", year |-> 2025, quarter |-> 1, source_period |-> NoPeriod]

MislabeledTranscript ==
    [ticker |-> "AAPL", year |-> 2024, quarter |-> 1, source_period |-> <<2025, 1>>]

\* "c" followed by the position of the claim in the file
ClaimId(i) == <<"c">> \o RenderInt(i)

BaseClaim ==
    [claim_id |-> ClaimId(1), metric_type |-> "revenue", claim_type |-> "absolute",
     claimed_value |-> Num(100), unit |-> "dollars", scale |-> "",
     period |-> QLabel(2025, 1), comparison_period |-> <<>>,
     gaap_classification |-> "gaap", is_approximate |-> FALSE, qualifiers |-> <<>>,
     metric_context |-> "", quote_text |-> {}]

UnitOf(metric) ==
    IF metric \in {"eps_basic", "eps_diluted"} THEN "per_share" ELSE "dollars"

PerShareValues ==
    { None, Rat(162, 100), Rat(161, 100), Rat(163, 100), Rat(190, 100), Rat(3, 100),
      Rat(6, 100), Rat(7, 100), Rat(-2, 100), Num(0) }

DollarValues ==
    { None, Num(100), Rat(1003, 10), Rat(1005, 10), Num(101), Num(102), Rat(1025, 10),
      Num(120), Num(131), Num(70), Num(50), Num(40), Num(20), Num(0) }

AbsValues(metric) ==
    IF metric \in {"eps_basic", "eps_diluted"} THEN PerShareValues ELSE DollarValues


\* a period text no pattern of parse_period matches
UnparsedPeriod == <<"t", "h", "i", "s", " ", "y", "e", "a", "r">>

\* absolute claims: metric, value, approximation and GAAP basis
AbsoluteClaims ==
    { [BaseClaim EXCEPT !.metric_type = m, !.unit = UnitOf(m), !.claimed_value = v,
                        !.is_approximate = a, !.gaap_classification = g] :
        <<m, g>> \in {"revenue", "eps_diluted", "net_income", "other"}
                       \X {"gaap", "unknown", "non_gaap"},
        v \in DollarValues \cup PerShareValues, a \in BOOLEAN } 

WellTypedAbsoluteClaims ==
    { c \in AbsoluteClaims : c.claimed_value \in AbsValues(c.metric_type) }

\* absolute revenue claims: segment or total context, period wording
ContextClaims ==
    { [BaseClaim EXCEPT !.claimed_value = v, !.metric_context = ctx,
                        !.gaap_classification = g, !.period = p] :
        v \in {None, Num(100), Num(120), Num(40)},
        ctx \in {"iPhone", "Total"},
        g \in {"gaap", "non_gaap"},
        p \in {QLabel(2025, 1), QLabel(2024, 4), FYLabel(2025), UnparsedPeriod} }

\* absolute claims whose quote holds one phrase of the vocabulary
QuoteClaims ==
    { [BaseClaim EXCEPT !.metric_type = m, !.claimed_value = v, !.quote_text = {p},
                        !.period = per] :
        m \in {"revenue", "other"}, v \in {Num(100), Num(370), Num(70)},
        p \in Vocabulary, per \in {QLabel(2025, 1), QLabel(2024, 4)} }

\* claimed values given in thousands, in basis points and as percentages
ScaledClaims ==
    { [BaseClaim EXCEPT !.claimed_value = v, !.unit = u, !.scale = s,
                        !.qualifiers = q] :
        v \in {None, Rat(1, 10), Rat(12, 100)},
        u \in {"dollars", "basis_points", "percent"},
        s \in {"", "thousands"},
        q \in {<<>>, <<"approximately">>} }

GrowthClaims ==
    { [BaseClaim EXCEPT !.claim_type = t, !.metric_type = m, !.claimed_value = v,
                        !.unit = u, !.is_approximate = a, !.comparison_period = cp] :
        t \in {"yoy_growth", "qoq_growth"}, m \in {"revenue", "net_income"},
        v \in {None, Num(25), Num(5), Rat(265, 10), Num(28), Num(100), Num(60), Num(0)},
        u \in {"percent", "dollars"}, a \in BOOLEAN,
        cp \in {<<>>, QLabel(2024, 4)} }

MarginClaims ==
    { [BaseClaim EXCEPT !.claim_type = "margin", !.metric_type = m, !.claimed_value = v,
                        !.unit = "percent", !.is_approximate = a, !.quote_text = q] :
        m \in {"gross_margin", "operating_margin", "operating_expenses", "revenue"},
        v \in {None, Num(40), Rat(402, 10), Rat(409, 10), Num(45), Num(30), Num(70),
               Num(10)},
        a \in BOOLEAN,
        q \in { {}, {"expanded 70 basis points"}, {"50 basis points of contraction"},
                {"expanded 70 basis points", "year over year"}, {"sg&a"} } }

MarginVariants ==
    { [BaseClaim EXCEPT !.claim_type = "margin", !.metric_type = "gross_margin",
                        !.claimed_value = v, !.unit = "percent", !.period = p,
                        !.metric_context = ctx, !.quote_text = q] :
        v \in {None, Num(40)}, p \in {QLabel(2025, 1), FYLabel(2025)},
        ctx \in {"", "iPhone"},
        q \in { {}, {"expanded 70 basis points"} } }

OtherClaims ==
    { [BaseClaim EXCEPT !.claim_type = t, !.claimed_value = v] :
        t \in {"guidance", "comparison", "other"}, v \in {None, Num(100)} }

\* growth and margin claims about a fiscal year
FullYearClaims ==
    { [BaseClaim EXCEPT !.claim_type = t, !.claimed_value = v, !.unit = "percent",
                        !.metric_type = IF t = "margin" THEN "gross_margin" ELSE "revenue",
                        !.period = p] :
        t \in {"yoy_growth", "qoq_growth", "margin"}, v \in {None, Num(25)},
        p \in {FYLabel(2025), FYLabel(2024)} }

\* revenue claims about fiscal 2024, whose four quarters NormalStore holds
\* (80 + 85 + 90 + 95 = 350)
FullYearAbsoluteClaims ==
    { [BaseClaim EXCEPT !.claimed_value = v, !.period = FYLabel(2024)] :
        v \in {Num(350), Num(340)} }

\* per-share claims on an unstated basis with a disclosure word or a
\* month-quarter phrase in the quote
PerShareQuoteClaims ==
    { [BaseClaim EXCEPT !.metric_type = "eps_diluted", !.unit = "per_share",
                        !.gaap_classification = "unknown", !.claimed_value = v,
                        !.quote_text = {p}, !.period = per] :
        v \in {Rat(6, 100), Rat(190, 100)},
        p \in {"december quarter", "adjusted"},
        per \in {QLabel(2025, 1), QLabel(2024, 4)} }

ClaimUniverse ==
    WellTypedAbsoluteClaims \cup ContextClaims \cup QuoteClaims \cup ScaledClaims
      \cup GrowthClaims \cup MarginClaims \cup MarginVariants \cup OtherClaims
      \cup FullYearClaims \cup FullYearAbsoluteClaims \cup PerShareQuoteClaims

\* the claims of a file with several claims about the same quarter
BatchPool ==
    { [BaseClaim EXCEPT !.claimed_value = Num(100)],
      [BaseClaim EXCEPT !.claimed_value = Rat(1003, 10)],
      [BaseClaim EXCEPT !.claimed_value = Num(101)],
      [BaseClaim EXCEPT !.claimed_value = Num(120)],
      [BaseClaim EXCEPT !.claimed_value = Rat(1025, 10)],
      [BaseClaim EXCEPT !.claimed_value = Num(40)],
      [BaseClaim EXCEPT !.claimed_value = Num(120), !.metric_context = "iPhone"],
      [BaseClaim EXCEPT !.claimed_value = Num(120), !.period = QLabel(2024, 4)],
      [BaseClaim EXCEPT !.metric_type = "eps_diluted", !.unit = "per_share",
                        !.claimed_value = Rat(190, 100),
                        !.gaap_classification = "unknown"],
      [BaseClaim EXCEPT !.metric_type = "eps_diluted", !.unit = "per_share",
                        !.claimed_value = Rat(162, 100)],
      [BaseClaim EXCEPT !.claimed_value = Num(100), !.period = UnparsedPeriod],
      [BaseClaim EXCEPT !.metric_type = "net_income", !.claim_type = "yoy_growth",
                        !.unit = "percent", !.claimed_value = Num(25)],
      [BaseClaim EXCEPT !.metric_type = "net_income", !.claim_type = "yoy_growth",
                        !.unit = "percent", !.claimed_value = Num(40)] }

\* claims of the mislabeled file: their periods are one year behind
\* claims that the gross margin expanded by so many basis points on the
\* quarter before, in which it did not change
BpsClaims ==
    { [BaseClaim EXCEPT !.claim_type = "margin", !.metric_type = "gross_margin",
                        !.claimed_value = Num(v), !.unit = "basis_points",
                        !.is_approximate = a, !.quote_text = {"expanded 70 basis points"}] :
        v \in {25, 26, 50, 51, 75, 76, 100, 101, 150, 151}, a \in BOOLEAN }

\* growth claims about several quarters, with and without a comparison period
BaselineClaims ==
    { [BaseClaim EXCEPT !.claim_type = t, !.claimed_value = Num(25), !.unit = "percent",
                        !.period = p, !.comparison_period = cp] :
        t \in {"yoy_growth", "qoq_growth"},
        p \in {QLabel(2025, 1), QLabel(2024, 4), QLabel(2024, 2), UnparsedPeriod},
        cp \in {<<>>, QLabel(2024, 1), FYLabel(2023), UnparsedPeriod} }

\* claims that several detectors recognise at once
OverlapClaims ==
    { [BaseClaim EXCEPT !.metric_type = m, !.claim_type = t, !.claimed_value = v,
                        !.gaap_classification = g, !.metric_context = ctx,
                        !.quote_text = q] :
        m \in {"revenue", "capital_expenditures"},
        t \in {"absolute", "guidance", "yoy_growth"},
        v \in {Num(370), Num(8)},
        g \in {"gaap", "non_gaap"},
        ctx \in {"", "iPhone"},
        q \in {{"ttm", "including finance leases"}, {"ttm", "iphone"}, {"ttm"},
               {"including finance leases"}} }

\* absolute claims about the trailing twelve months and about the quarter
TrailingClaims ==
    { [BaseClaim EXCEPT !.metric_type = m, !.claimed_value = v,
                        !.gaap_classification = g, !.is_approximate = a,
                        !.quote_text = q] :
        m \in {"ebitda", "net_income"},
        v \in {Num(100), Num(74), Num(25), Num(28), Num(110), Num(20)},
        g \in {"gaap", "unknown"}, a \in BOOLEAN,
        q \in {{"ttm"}, {"ttm", "adjusted"}, {}} }

\* claims about the December quarter and about the fiscal quarter, with and
\* without the month-quarter phrase in the quote
AliasClaims ==
    { [BaseClaim EXCEPT !.metric_type = k[1], !.claim_type = k[2], !.unit = k[3],
                        !.claimed_value = v, !.period = p, !.quote_text = q] :
        k \in { <<"revenue", "absolute", "dollars">>,
                <<"operating_expenses", "absolute", "dollars">>,
                <<"revenue", "yoy_growth", "percent">>,
                <<"gross_margin", "margin", "percent">> },
        v \in {Num(100), Num(70), Num(10), Num(40), Num(25)},
        p \in {QLabel(2024, 4), QLabel(2025, 1)},
        q \in {{}, {"december quarter"}, {"total expenses", "december quarter"}} }

\* period texts as transcripts write them: the labels of the pipeline for the
\* quarters 0..4 of several four-digit years, and the other accepted spellings
PeriodYears == {1000, 1999, 2024, 9998}

PeriodTexts ==
    { QLabel(y, q) : <<y, q>> \in PeriodYears \X (1..4) }
      \cup { FYLabel(y) : y \in PeriodYears }
      \cup { <<"3", "Q", " ", "2", "0", "2", "4">>, <<"3", "Q", "2", "4">>,
             <<" ", "q", "2", " ", "f", "y", "2", "0", "2", "4">>,
             <<"F", "Y", "2", "0", "2", "4">>, <<"Q", "0", " ", "2", "0", "2", "4">>,
             <<"f", "i", "s", "c", "a", "l", " ", "y", "e", "a", "r", " ",
               "2", "0", "2", "4">> }

PeriodPool == { [BaseClaim EXCEPT !.period = p] : p \in PeriodTexts }

MislabeledPool ==
    { [BaseClaim EXCEPT !.claimed_value = v, !.period = p, !.claim_type = t,
                        !.unit = IF t = "absolute" THEN "dollars" ELSE "percent"] :
        v \in {Num(100), Num(25), Num(120)},
        p \in {QLabel(2024, 1), FYLabel(2024), UnparsedPeriod},
        t \in {"absolute", "yoy_growth"} }

MaxClaims == 2

MaxRuns == 2

\* the claims of a file, numbered in order
Numbered(cs) == [i \in 1..Len(cs) |-> [cs[i] EXCEPT !.claim_id = ClaimId(i)]]

RECURSIVE SeqsOf(_, _)
SeqsOf(S, n) ==
    IF n = 0 THEN { <<>> }
    ELSE { Append(s, x) : s \in SeqsOf(S, n - 1), x \in S }

Batches == UNION { SeqsOf(BatchPool, n) : n \in 2..MaxClaims }

VARIABLES fmp_data, transcript, claims, verdicts, returned, summary, pc, runs, previous

vars == <<fmp_data, transcript, claims, verdicts, returned, summary, pc, runs, previous>>

NoSummary == [total |-> 0, verified |-> 0, close_match |-> 0, mismatch |-> 0,
              misleading |-> 0, unverifiable |-> 0]

Init ==
    /\ \/ /\ transcript = Transcript
          /\ fmp_data \in Stores
          /\ \E c \in ClaimUniverse : claims = <<c>>
       \/ /\ transcript = Transcript
          /\ fmp_data = NormalStore
          /\ \E cs \in Batches : claims = Numbered(cs)
       \/ /\ transcript = Transcript
          /\ fmp_data = NormalStore
          /\ \E c \in OverlapClaims \cup BaselineClaims \cup BpsClaims : claims = <<c>>
       \/ /\ transcript = Transcript
          /\ fmp_data = AliasStore
          /\ \E c \in AliasClaims : claims = <<c>>
       \/ /\ transcript = Transcript
          /\ fmp_data = TrailingStore
          /\ \E c \in TrailingClaims : claims = <<c>>
       \/ /\ transcript = MislabeledTranscript
          /\ fmp_data \in {NormalStore, PriorZeroStore}
          /\ \E c \in MislabeledPool \cup PeriodPool : claims = <<c>>
    /\ verdicts = <<>>
    /\ returned = <<>>
    /\ summary = NoSummary
    /\ pc = "verify"
    /\ runs = 1
    /\ previous = <<>>

\* the call run_verification makes for the next claim of the file
NextCall ==
    verify_single_claim(
        claim_with_period_shift(
            claims[Len(verdicts) + 1],
            derive_transcript_period_override(transcript)[1] - transcript.year),
        transcript.ticker,
        derive_transcript_period_override(transcript)[1],
        derive_transcript_period_override(transcript)[2],
        fmp_data)

\* one iteration of the loop over the claims: the call returns a verdict
VerifyClaim ==
    /\ pc = "verify"
    /\ Len(verdicts) < Len(claims)
    /\ \E v \in {NextCall} :
          /\ ~v.raised
          /\ verdicts' = Append(verdicts, [claim |-> claims[Len(verdicts) + 1],
                                           verification |-> v])
          /\ returned' = Append(returned, v)
    /\ fmp_data' = StoreAfterCall(fmp_data, claims[Len(verdicts) + 1])
    /\ claims' = [claims EXCEPT ![Len(verdicts) + 1] = ClaimAfterCall(@)]
    /\ UNCHANGED <<transcript, summary, pc, runs, previous>>

\* the call raises: nothing catches the exception, run_verification ends
\* without writing the file
VerifyRaises ==
    /\ pc = "verify"
    /\ Len(verdicts) < Len(claims)
    /\ NextCall.raised
    /\ pc' = "crashed"
    /\ UNCHANGED <<fmp_data, transcript, claims, verdicts, returned, summary, runs, previous>>

\* after the loop: _downgrade_conflicting_mismatches(verdicts)
Downgrade ==
    /\ pc = "verify"
    /\ Len(verdicts) = Len(claims)
    /\ verdicts' = downgrade_conflicting_mismatches(verdicts)
    /\ pc' = "summarise"
    /\ UNCHANGED <<fmp_data, transcript, claims, returned, summary, runs, previous>>

\* file_summary is computed and the verdict file is written
WriteVerdicts ==
    /\ pc = "summarise"
    /\ summary' = file_summary(verdicts)
    /\ pc' = "done"
    /\ UNCHANGED <<fmp_data, transcript, claims, verdicts, returned, runs, previous>>

\* run_verification is run again over the same files
Rerun ==
    /\ pc = "done"
    /\ runs < MaxRuns
    /\ runs' = runs + 1
    /\ previous' = returned
    /\ verdicts' = <<>>
    /\ returned' = <<>>
    /\ pc' = "verify"
    /\ UNCHANGED <<fmp_data, transcript, claims, summary>>

Next == VerifyClaim \/ VerifyRaises \/ Downgrade \/ WriteVerdicts \/ Rerun

Spec == Init /\ [][Next]_vars

(***************************************************************************)
(* Properties of the verification run                                      *)
(*   returned[i] is the verdict verify_single_claim returned for claim i,  *)
(*   verdicts[i].verification is that verdict in the file, after the       *)
(*   conflict downgrade once pc has left "verify".                         *)
(***************************************************************************)
\* the fiscal period the calls of the run are made with
EffectivePeriod == derive_transcript_period_override(transcript)

\* the claim handed to verify_single_claim for claim i of the file
CallClaim(i) == claim_with_period_shift(claims[i], EffectivePeriod[1] - transcript.year)

CallPeriods(i) == resolve_periods(CallClaim(i), EffectivePeriod[1], EffectivePeriod[2])

\* the fact the call for claim i finds for a field and a period
CallFact(i, field, yq) ==
    lookup_value(fmp_data, field, yq[1], yq[2],
                 should_use_calendar_alias(CallClaim(i), EffectivePeriod[1],
                                           EffectivePeriod[2]))

HasFlag(v, flag) == \E k \in 1..Len(v.flags) : v.flags[k] = flag

\* not float("inf"); None is the absence of a number
Finite(x) == x.k \in {"num", "none"}

\* C1: every verdict verify_single_claim returns is labelled verified,
\* close_match, mismatch, misleading or unverifiable, and so is every verdict
\* of the file once _downgrade_conflicting_mismatches has run.
C1_LabelIsOneOfFive ==
    /\ \A i \in 1..Len(returned) : returned[i].verdict \in Labels
    /\ \A i \in 1..Len(verdicts) : verdicts[i].verification.verdict \in Labels

\* a file is written in which the downgrade has relabelled a mismatch
C1_Witness ==
    /\ pc = "done"
    /\ \E i \in 1..Len(verdicts) :
          /\ returned[i].verdict = "mismatch"
          /\ verdicts[i].verification.verdict = "unverifiable"
          /\ HasFlag(verdicts[i].verification, "conflicting_transcript_claim")

\* C2: verify_single_claim never raises; a claim with a missing or null field
\* gets an unverifiable verdict and the run goes on.
C2_NeverRaises == pc # "crashed"

\* C3: every verdict returned as unverifiable carries an explanation and at
\* least one flag naming the reason category (unresolvable period, metric
\* not in the catalog, missing facts, zero denominator included).
C3_UnverifiableIsFlagged ==
    \A i \in 1..Len(returned) :
        returned[i].verdict = "unverifiable"
            => /\ returned[i].explanation.kind # ""
               /\ returned[i].flags # <<>>

\* C4: unverifiable is terminal: a verdict returned as unverifiable has no
\* misleading flags or reasons, and the conflict downgrade leaves it as it
\* was returned.
C4_UnverifiableIsTerminal ==
    \A i \in 1..Len(returned) :
        returned[i].verdict = "unverifiable"
            => /\ returned[i].misleading_flags = <<>>
               /\ returned[i].misleading_reasons = <<>>
               /\ verdicts[i].verification = returned[i]

\* a written file with an unverifiable total-context claim next to a verified
\* claim of the same metric and period
C4_Witness ==
    /\ pc = "done"
    /\ \E i, j \in 1..Len(verdicts) :
          /\ i # j
          /\ returned[i].verdict = "unverifiable"
          /\ returned[j].verdict \in {"verified", "close_match"}
          /\ claims[i].claim_type = "absolute"
          /\ claims[i].metric_type = claims[j].metric_type
          /\ claims[i].period = claims[j].period
          /\ LowerContext(claims[i].metric_context) \in TOTAL_CONTEXTS

\* C5: a claim the numeric comparison labelled verified or close_match ends,
\* after the misleading checks and after the conflict downgrade, with that
\* same label or with misleading.
C5_NumericLabelKeptOrEscalated ==
    \A i \in 1..Len(returned) :
        returned[i].numeric \in {"verified", "close_match"}
            => /\ returned[i].verdict \in {returned[i].numeric, "misleading"}
               /\ verdicts[i].verification.verdict \in {returned[i].numeric, "misleading"}

\* a written file with a numerically verified claim escalated to misleading
C5_Witness ==
    /\ pc = "done"
    /\ \E i \in 1..Len(verdicts) :
          /\ returned[i].numeric = "verified"
          /\ returned[i].misleading_flags # <<>>
          /\ verdicts[i].verification.verdict = "misleading"

ZeroFact(f) == f.found /\ RIsZero(f.value)

\* the four quarters of a year are all on file and sum to zero
ZeroYear(i, field, year) ==
    LET total == sum_full_year_metric(
                     fmp_data, field, year,
                     should_use_calendar_alias(CallClaim(i), EffectivePeriod[1],
                                               EffectivePeriod[2])).total
    IN  IsNum(total) /\ RIsZero(total)

\* claim i is a growth claim whose baseline value on file is 0
GrowthBaseIsZero(i) ==
    LET c == CallClaim(i)
        p == CallPeriods(i)
    IN  /\ c.claim_type \in {"yoy_growth", "qoq_growth"}
        /\ InCatalog(ClaimMetric(c))
        /\ \/ /\ p.target[2] # 0
              /\ p.baseline # NoPeriod
              /\ ZeroFact(CallFact(i, FmpField(ClaimMetric(c)), p.baseline))
           \/ /\ p.target[2] = 0
              /\ ZeroYear(i, FmpField(ClaimMetric(c)), p.target[1] - 1)

\* claim i is a margin claim with a denominator on file that is 0: of its
\* quarter, of its fiscal year, or of the baseline of a basis-point change
MarginDenominatorIsZero(i) ==
    LET c == CallClaim(i)
        p == CallPeriods(i)
        den_field == IF ClaimMetric(c) = "operating_expenses" THEN "revenue"
                     ELSE METRIC_CATALOG[ClaimMetric(c)].denominator
        baseline == resolve_margin_change_baseline(c, p.target[1], p.target[2],
                                                   c.quote_text)
    IN  /\ c.claim_type = "margin"
        /\ ClaimMetric(c) \in {"gross_margin", "operating_margin", "operating_expenses"}
        /\ \/ /\ p.target[2] # 0
              /\ ZeroFact(CallFact(i, den_field, p.target))
           \/ /\ p.target[2] # 0
              /\ Matches(c.quote_text, BPS_CHANGE_KEYWORDS \cup BPS_CHANGE_KEYWORDS2)
              /\ baseline # NoPeriod
              /\ ZeroFact(CallFact(i, den_field, baseline))
           \/ /\ p.target[2] = 0
              /\ ZeroYear(i, den_field, p.target[1])

\* C6: when the baseline of a growth claim or a denominator of a margin
\* claim is 0, the call returns unverifiable (it does not raise) and
\* actual_value, difference and difference_pct hold no infinite number.
C6_ZeroDenominatorIsUnverifiable ==
    /\ \A i \in 1..Len(returned) :
          GrowthBaseIsZero(i) \/ MarginDenominatorIsZero(i)
              => /\ returned[i].verdict = "unverifiable"
                 /\ Finite(returned[i].actual_value)
                 /\ Finite(returned[i].difference)
                 /\ Finite(returned[i].difference_pct)
    /\ pc = "crashed"
          => ~(GrowthBaseIsZero(Len(verdicts) + 1)
                 \/ MarginDenominatorIsZero(Len(verdicts) + 1))

\* a growth claim with a numeric claimed value over a zero baseline, and the
\* current value on file, has been answered
C6_Witness ==
    \E i \in 1..Len(returned) :
        /\ GrowthBaseIsZero(i)
        /\ IsNum(claims[i].claimed_value)
        /\ claims[i].unit = "percent"
        /\ IsNum(returned[i].actual_value)
        /\ returned[i].verdict = "unverifiable"

QuarterlyRevenueClaim(i) ==
    LET c == CallClaim(i)
        p == CallPeriods(i)
    IN  /\ c.claim_type = "absolute"
        /\ ClaimMetric(c) = "revenue"
        /\ LowerContext(c.metric_context) \in TOTAL_CONTEXTS
        /\ ~c.is_approximate
        /\ ~is_approximate(c.qualifiers)
        /\ p.error = ""
        /\ p.target[2] \in 1..4
        /\ ~Matches(c.quote_text, TTM_KEYWORDS)
        /\ IsNum(normalize_claimed_value(c.claimed_value, c.unit, c.scale))
        /\ CallFact(i, "revenue", p.target).found
        /\ ~RIsZero(CallFact(i, "revenue", p.target).value)

\* |claimed - actual| / |actual| of claim i
RevenueGap(i) ==
    LET c == CallClaim(i)
        actual == CallFact(i, "revenue", CallPeriods(i).target).value
    IN  RDiv(RAbs(RSub(normalize_claimed_value(c.claimed_value, c.unit, c.scale), actual)),
             RAbs(actual))

\* C8: a quarterly, total-company, non-approximate absolute revenue claim
\* that no detector resolved as unverifiable is numerically verified when
\* |claimed-actual|/|actual| <= 0.5%, close_match when <= 2%, else mismatch.
C8_RevenueBands ==
    \A i \in 1..Len(returned) :
        QuarterlyRevenueClaim(i) /\ returned[i].verdict # "unverifiable"
            => returned[i].numeric =
                  IF RLe(RevenueGap(i), Rat(5, 1000)) THEN "verified"
                  ELSE IF RLe(RevenueGap(i), Rat(2, 100)) THEN "close_match"
                  ELSE "mismatch"

\* a file in which 100.3 claimed against 100 is verified and 120 claimed
\* against 100 is a mismatch
C8_Witness ==
    \E i, j \in 1..Len(returned) :
        /\ QuarterlyRevenueClaim(i) /\ QuarterlyRevenueClaim(j)
        /\ claims[i].claimed_value = Rat(1003, 10)
        /\ returned[i].actual_value = Num(100)
        /\ returned[i].numeric = "verified"
        /\ claims[j].claimed_value = Num(120)
        /\ returned[j].actual_value = Num(100)
        /\ returned[j].numeric = "mismatch"

\* claim i is an absolute claim on a per-share metric, on a GAAP or unstated
\* basis, about one quarter, with a numeric claimed value and the actual
\* value on file
PerShareClaim(i) ==
    LET c == CallClaim(i)
        p == CallPeriods(i)
    IN  /\ c.claim_type = "absolute"
        /\ ClaimMetric(c) \in {"eps_basic", "eps_diluted"}
        /\ c.gaap_classification # "non_gaap"
        /\ p.error = ""
        /\ p.target[2] \in 1..4
        /\ ~Matches(c.quote_text, TTM_KEYWORDS)
        /\ IsNum(normalize_claimed_value(c.claimed_value, c.unit, c.scale))
        /\ CallFact(i, ClaimMetric(c), p.target).found

PerShareClaimed(i) ==
    normalize_claimed_value(CallClaim(i).claimed_value, CallClaim(i).unit,
                            CallClaim(i).scale)

PerShareActual(i) == CallFact(i, ClaimMetric(CallClaim(i)), CallPeriods(i).target).value

WithinPerShareTolerance(i) ==
    RLe(RAbs(RSub(PerShareClaimed(i), PerShareActual(i))), EPS_ABSOLUTE_TOLERANCE)

SegmentRevenueClaim(i) ==
    LET c == CallClaim(i)
    IN  /\ c.claim_type = "absolute"
        /\ ClaimMetric(c) = "revenue"
        /\ LowerContext(c.metric_context) \notin TOTAL_CONTEXTS
        /\ c.gaap_classification # "non_gaap"
        /\ CallPeriods(i).error = ""
        /\ IsNum(c.claimed_value)

PerShareExcess(i) ==
    RDiv(RSub(PerShareClaimed(i), PerShareActual(i)), RAbs(PerShareActual(i)))

\* claim i is a quarterly per-share claim on an unstated basis whose claimed
\* value exceeds the actual on file by more than 15% and whose quote has no
\* disclosure keyword
UndisclosedExcessClaim(i) ==
    /\ PerShareClaim(i)
    /\ CallClaim(i).gaap_classification = "unknown"
    /\ ~RIsZero(PerShareActual(i))
    /\ RGt(PerShareExcess(i), Rat(15, 100))
    /\ ~Matches(CallClaim(i).quote_text, NONGAAP_KEYWORDS)

\* C11 as stated: every such claim is labelled misleading, for every excess
\* above 15%.
C11_ExcessAlwaysMisleading ==
    \A i \in 1..Len(returned) :
        UndisclosedExcessClaim(i) => returned[i].verdict = "misleading"


\* the actual of claim i is stored under the claim's own (year, quarter)
StoredUnderOwnPeriod(i) ==
    HasFact(fmp_data, CallPeriods(i).target[1], CallPeriods(i).target[2],
            CallClaim(i).metric_type)

\* C11: a quarterly per-share claim on an unstated basis, quoted without a
\* disclosure keyword, whose claimed value exceeds the actual stored for its
\* own quarter by more than 15% and is at most 1.3 times that actual, is
\* labelled misleading by the call and in the file.
C11_ExcessUpToRatioIsMisleading ==
    \A i \in 1..Len(returned) :
        /\ UndisclosedExcessClaim(i)
        /\ StoredUnderOwnPeriod(i)
        /\ RLe(RDiv(PerShareClaimed(i), PerShareActual(i)), Rat(130, 100))
        => /\ returned[i].verdict = "misleading"
           /\ verdicts[i].verification.verdict = "misleading"

\* a claim 20% above the actual, inside the fixed tolerance, escalated by the
\* heuristic
C11_Witness ==
    \E i \in 1..Len(returned) :
        /\ UndisclosedExcessClaim(i)
        /\ StoredUnderOwnPeriod(i)
        /\ PerShareExcess(i) = Rat(20, 100)
        /\ returned[i].numeric = "verified"
        /\ returned[i].verdict = "misleading"
        /\ HasFlag([flags |-> returned[i].misleading_flags], "gaap_nongaap_mixing")

\* the period of the claim handed to the call for claim i names a fiscal year
FullYearCall(i) ==
    /\ parse_period(CallClaim(i).period) # NoPeriod
    /\ parse_period(CallClaim(i).period)[2] = 0

\* C12: an absolute full-year claim on a summable metric whose four quarters
\* are all on file is compared with their sum: actual_value is that sum and a
\* claimed value equal to it is verified; a full-year yoy growth claim whose
\* two years are on file is compared with the growth of the sums.
C12_FullYearIsSummed ==
    \A i \in 1..Len(returned) :
        LET c == CallClaim(i)
            year == parse_period(c.period)[1]
            alias == should_use_calendar_alias(c, EffectivePeriod[1], EffectivePeriod[2])
            total == sum_full_year_metric(fmp_data, FmpField(ClaimMetric(c)), year, alias).total
            prior == sum_full_year_metric(fmp_data, FmpField(ClaimMetric(c)), year - 1, alias).total
        IN  /\ FullYearCall(i)
            /\ ClaimMetric(c) \in ANNUAL_SUM_METRICS
            /\ c.gaap_classification # "non_gaap"
            /\ LowerContext(c.metric_context) \in TOTAL_CONTEXTS
            /\ IsNum(total)
            => /\ c.claim_type = "absolute"
                    => /\ returned[i].actual_value = total
                       /\ normalize_claimed_value(c.claimed_value, c.unit, c.scale) = total
                             => returned[i].verdict = "verified"
               /\ c.claim_type = "yoy_growth" /\ IsNum(prior) /\ ~RIsZero(prior)
                    => returned[i].actual_value = total

\* C13: resolve_periods on a full-year period returns target (YYYY, 0) and no
\* error; for a yoy_growth claim without comparison period the baseline is
\* (YYYY-1, 0), for a qoq_growth claim there is no baseline.
C13_FullYearResolves ==
    \A i \in 1..Len(returned) :
        FullYearCall(i)
            => /\ CallPeriods(i).target = <<parse_period(CallClaim(i).period)[1], 0>>
               /\ CallPeriods(i).error = ""
               /\ CallClaim(i).claim_type = "yoy_growth"
                    /\ CallClaim(i).comparison_period = <<>>
                    => CallPeriods(i).baseline
                          = <<parse_period(CallClaim(i).period)[1] - 1, 0>>
               /\ CallClaim(i).claim_type = "qoq_growth"
                    => CallPeriods(i).baseline = NoPeriod


\* the conflict downgrade of the file has run
AfterDowngrade == pc \in {"summarise", "done"}

\* the call labelled claim i a mismatch, 3 or more off
MismatchedByThree(i) ==
    /\ returned[i].verdict = "mismatch"
    /\ IsNum(returned[i].difference_pct)
    /\ RLe(Num(3), RAbs(returned[i].difference_pct))

FlagCount(v, flag) == Cardinality({ k \in 1..Len(v.flags) : v.flags[k] = flag })

\* claim i was downgraded, citing claim j
DowngradedCiting(i, j) ==
    /\ verdicts[i].verification.verdict = "unverifiable"
    /\ FlagCount(verdicts[i].verification, "conflicting_transcript_claim") = 1
    /\ verdicts[i].verification.explanation.ref = claims[j].claim_id

\* claims i and j share metric, resolved period and a total context
SameResolvedGroup(i, j) ==
    /\ claims[i].metric_type = claims[j].metric_type
    /\ CallPeriods(i).target = CallPeriods(j).target
    /\ LowerContext(claims[i].metric_context) \in TOTAL_CONTEXTS
    /\ LowerContext(claims[j].metric_context) \in TOTAL_CONTEXTS

\* C14 as stated: for every claim kind, and for period texts that resolve to
\* the transcript period, a mismatch of 3 or more in a group with a verified
\* or close_match claim is downgraded and cites such a claim of the group.
C14_EveryGroupIsDowngraded ==
    AfterDowngrade =>
        \A i \in 1..Len(verdicts) :
            /\ MismatchedByThree(i)
            /\ \E j \in 1..Len(verdicts) :
                  /\ SameResolvedGroup(i, j)
                  /\ returned[j].verdict \in {"verified", "close_match"}
            => \E j \in 1..Len(verdicts) :
                  /\ SameResolvedGroup(i, j)
                  /\ returned[j].verdict \in {"verified", "close_match"}
                  /\ DowngradedCiting(i, j)

\* absolute claims i and j with the same metric, the same parsed period text
\* and a total context
SameAbsoluteGroup(i, j) ==
    /\ claims[i].claim_type = "absolute" /\ claims[j].claim_type = "absolute"
    /\ claims[i].metric_type = claims[j].metric_type
    /\ parse_period(claims[i].period) # NoPeriod
    /\ parse_period(claims[i].period) = parse_period(claims[j].period)
    /\ LowerContext(claims[i].metric_context) \in TOTAL_CONTEXTS
    /\ LowerContext(claims[j].metric_context) \in TOTAL_CONTEXTS

\* C14: among the absolute claims of a file whose period text parses, a
\* mismatch of 3 or more in a group (metric, parsed period, total context)
\* with a verified or close_match claim is unverifiable after the downgrade,
\* flagged conflicting_transcript_claim once, and cites such a claim.
C14_AbsoluteGroupIsDowngraded ==
    AfterDowngrade =>
        \A i \in 1..Len(verdicts) :
            /\ MismatchedByThree(i)
            /\ \E j \in 1..Len(verdicts) :
                  /\ SameAbsoluteGroup(i, j)
                  /\ returned[j].verdict \in {"verified", "close_match"}
            => \E j \in 1..Len(verdicts) :
                  /\ SameAbsoluteGroup(i, j)
                  /\ returned[j].verdict \in {"verified", "close_match"}
                  /\ DowngradedCiting(i, j)

\* a file in which a revenue claim 20% off was downgraded citing the verified
\* claim of the same quarter
C14_Witness ==
    /\ AfterDowngrade
    /\ \E i, j \in 1..Len(verdicts) :
          /\ SameAbsoluteGroup(i, j)
          /\ MismatchedByThree(i)
          /\ returned[i].difference_pct = Num(20)
          /\ returned[j].verdict = "verified"
          /\ DowngradedCiting(i, j)


\* difference_pct is a number (or infinite) of magnitude 3 or more
AtLeastThree(x) == x.k = "inf" \/ (IsNum(x) /\ RLe(Num(3), RAbs(x)))

\* some verified or close_match claim shares the absolute group of claim i
HasCorroboratingSibling(i) ==
    \E j \in 1..Len(returned) :
        /\ SameAbsoluteGroup(i, j)
        /\ returned[j].verdict \in {"verified", "close_match"}

\* C15: the conflict downgrade keeps the length and order of the batch and
\* changes a verdict only if it was a mismatch 3 or more off with a verified
\* or close_match claim in its group; every other record is as returned, and
\* a batch without such a pair is left as it was.
C15_DowngradeFrame ==
    /\ Len(verdicts) = Len(returned)
    /\ \A i \in 1..Len(verdicts) :
          /\ verdicts[i].claim = claims[i]
          /\ verdicts[i].verification.claim_id = returned[i].claim_id
          /\ verdicts[i].verification # returned[i]
                => /\ returned[i].verdict = "mismatch"
                   /\ AtLeastThree(returned[i].difference_pct)
                   /\ HasCorroboratingSibling(i)
    /\ AfterDowngrade => Len(verdicts) = Len(claims)

\* a file in which one claim was downgraded while its verified sibling was
\* left as returned
C15_Witness ==
    /\ AfterDowngrade
    /\ \E i, j \in 1..Len(verdicts) :
          /\ verdicts[i].verification # returned[i]
          /\ SameAbsoluteGroup(i, j)
          /\ returned[j].verdict = "verified"
          /\ verdicts[j].verification = returned[j]


\* the label of claim i once the conflict downgrade has run
LabelAfterDowngrade(i) ==
    IF /\ returned[i].verdict = "mismatch"
       /\ AtLeastThree(returned[i].difference_pct)
       /\ HasCorroboratingSibling(i)
    THEN "unverifiable"
    ELSE returned[i].verdict

CountFinal(label) ==
    Cardinality({ i \in 1..Len(returned) : LabelAfterDowngrade(i) = label })

\* C16: the conflict downgrade of a file runs once, after the last claim of
\* the file has its verdict and before the summary is computed; the counts
\* written with the file are those of the labels after the downgrade and add
\* up to the number of claims.
C16_DowngradeThenSummary ==
    /\ [](pc = "done"
            => /\ Len(returned) = Len(claims)
               /\ summary.total = Len(claims)
               /\ \A l \in Labels : summary[l] = CountFinal(l)
               /\ summary.verified + summary.close_match + summary.mismatch
                    + summary.misleading + summary.unverifiable = summary.total)
    /\ [][/\ pc' = "summarise" => pc = "verify" /\ Len(returned) = Len(claims)
          /\ pc = "summarise" => pc' = "done" /\ verdicts' = verdicts
          /\ pc' = "done" => pc = "summarise"
          /\ pc = "verify" /\ pc' = "verify" /\ verdicts' # <<>>
                => /\ Len(verdicts') = Len(verdicts) + 1
                   /\ SubSeq(verdicts', 1, Len(verdicts)) = verdicts]_vars

\* a file is written whose counts show a claim the downgrade relabelled
C16_Witness ==
    /\ pc = "done"
    /\ summary.total = 2
    /\ summary.verified = 1
    /\ summary.unverifiable = 1
    /\ \E i \in 1..Len(returned) : returned[i].verdict = "mismatch"


(***************************************************************************)
(* C17: periods survive rendering and parsing                              *)
(***************************************************************************)
FourDigit(year) == year \in 1000..9999

\* the label the pipeline renders for a parsed period
RenderedLabel(period_str) == shift_period_string(period_str, 0)

\* the year delta the run applies to the periods of its claims
RunDelta == EffectivePeriod[1] - transcript.year

RoundTrips(period_str, parsed, delta) ==
    (/\ parsed # NoPeriod
     /\ parsed[2] \in 0..4
     /\ FourDigit(parsed[1])
     /\ FourDigit(parsed[1] + delta))
        => /\ RenderedLabel(period_str)
                = (IF parsed[2] = 0 THEN FYLabel(parsed[1])
                   ELSE QLabel(parsed[1], parsed[2]))
           /\ parse_period(RenderedLabel(period_str)) = parsed
           /\ parse_period(shift_period_string(period_str, delta))
                = <<parsed[1] + delta, parsed[2]>>

\* C17: parse_period reads "Q3 2024" as (2024, 3) and "FY 2024" as (2024, 0),
\* and for every claim of a run whose period parses to a four-digit year and a
\* quarter 0..4, the label the pipeline renders for the parsed period ("Qn YYYY",
\* "FY YYYY" for quarter 0) parses back to the same (year, quarter), also after
\* the year shift of the run
C17_PeriodRoundTrip ==
    /\ parse_period(<<"Q", "3", " ", "2", "0", "2", "4">>) = <<2024, 3>>
    /\ parse_period(<<"F", "Y", " ", "2", "0", "2", "4">>) = <<2024, 0>>
    /\ \A i \in 1..Len(claims) :
          RoundTrips(claims[i].period, parse_period(claims[i].period), RunDelta)
    /\ \A i \in 1..Len(verdicts) :
          parse_period(claims[i].period) # NoPeriod
            => parse_period(CallClaim(i).period)
                 = <<parse_period(claims[i].period)[1] + RunDelta,
                     parse_period(claims[i].period)[2]>>

\* a fiscal-year text in another spelling was shifted by a year and verified
\* under the label "FY 2025", which parses to (2025, 0)
C17_Witness ==
    /\ pc = "done"
    /\ RunDelta = 1
    /\ Len(verdicts) = 1
    /\ claims[1].period = <<"F", "Y", "2", "0", "2", "4">>
    /\ CallClaim(1).period = <<"F", "Y", " ", "2", "0", "2", "5">>
    /\ parse_period(CallClaim(1).period) = <<2025, 0>>


(***************************************************************************)
(* C18: the calendar alias is guarded and leaves its mark                  *)
(***************************************************************************)
\* the claim handed to the call names a parsed period other than the
\* transcript's own, and its quote holds a month-quarter phrase
AliasPermitted(i) ==
    /\ parse_period(CallClaim(i).period) # NoPeriod
    /\ parse_period(CallClaim(i).period) # EffectivePeriod
    /\ Matches(CallClaim(i).quote_text, MONTH_QUARTER_KEYWORDS)

WithoutAliases(fmp) == [fmp EXCEPT !.aliases = NoAliases]

\* the verdict of the same call on a store that has no alias table: every
\* lookup finds the fact under the exact (year, quarter) key or reports missing
ExactCall(i) ==
    verify_single_claim(CallClaim(i), transcript.ticker, EffectivePeriod[1],
                        EffectivePeriod[2], WithoutAliases(fmp_data))

\* the actual value of verdict i exists only because of an aliased fact
AnsweredThroughAlias(i) ==
    /\ IsNum(returned[i].actual_value)
    /\ ~IsNum(ExactCall(i).actual_value)

AliasTags == {"fmp_calendar_alias", "sec_companyfacts_calendar_alias", "calendar_alias"}

AliasTagged(v) == \E k \in 1..Len(v.evidence_source) : v.evidence_source[k] \in AliasTags

\* the evidence text of the "total expenses" comparison
IsTotalExpensesEvidence(v) ==
    v.evidence_source = <<"fmp (cost_of_revenue + operating_expenses)">>

\* C18 as stated: without the guard every verdict is the verdict of exact-key
\* lookups, and every verdict answered through the alias names a source with
\* the suffix "_calendar_alias"
C18_AliasGuardedAndTagged ==
    \A i \in 1..Len(returned) :
        /\ ~AliasPermitted(i) => returned[i] = ExactCall(i)
        /\ AnsweredThroughAlias(i) => AliasPermitted(i) /\ AliasTagged(returned[i])

\* C18, amended: without the guard every verdict is the verdict of exact-key
\* lookups, and every verdict answered through the alias names a source with
\* the suffix "_calendar_alias", except the comparison of an operating_expenses
\* claim with cost of revenue plus operating expenses, whose evidence source is
\* the fixed text "fmp (cost_of_revenue + operating_expenses)"
C18_AliasGuardedTaggedButTotalExpenses ==
    \A i \in 1..Len(returned) :
        /\ ~AliasPermitted(i) => returned[i] = ExactCall(i)
        /\ AnsweredThroughAlias(i)
             => /\ AliasPermitted(i)
                /\ \/ AliasTagged(returned[i])
                   \/ /\ ClaimMetric(CallClaim(i)) = "operating_expenses"
                      /\ CallClaim(i).claim_type = "absolute"
                      /\ IsTotalExpensesEvidence(returned[i])

\* a growth claim about the December quarters was answered from the fiscal
\* quarters the alias table names, and both sources carry the suffix
C18_Witness ==
    /\ pc = "done"
    /\ Len(returned) = 1
    /\ AliasPermitted(1)
    /\ AnsweredThroughAlias(1)
    /\ CallClaim(1).claim_type = "yoy_growth"
    /\ returned[1].verdict = "verified"
    /\ returned[1].evidence_source
         = <<"sec_companyfacts_calendar_alias", "fmp_calendar_alias">>
    /\ ExactCall(1).verdict = "unverifiable"


(***************************************************************************)
(* C19: aggregation returns a whole sum or the periods it lacks            *)
(***************************************************************************)
\* the quarters the call for claim i sums, <<>> when it names no window
AggregationWindow(i) ==
    determine_multiperiod_periods(
        CallClaim(i).quote_text, CallPeriods(i).target[1],
        IF CallPeriods(i).target[2] \in {1, 2, 3, 4} THEN CallPeriods(i).target[2]
        ELSE EffectivePeriod[2]).periods

\* the call for claim i reaches the multi-period sum: an absolute claim with
\* multi-period wording about a summable metric that no earlier exit answers
MultiPeriodCall(i) ==
    /\ CallClaim(i).claim_type = "absolute"
    /\ CallClaim(i).gaap_classification # "non_gaap"
    /\ ~(/\ ClaimMetric(CallClaim(i)) \in CAPEX_METRICS
         /\ Matches(CallClaim(i).quote_text, CAPEX_LEASE_KEYWORDS))
    /\ CallPeriods(i).error = ""
    /\ InCatalog(ClaimMetric(CallClaim(i)))
    /\ ~(/\ ClaimMetric(CallClaim(i)) \in SEGMENT_METRICS
         /\ is_segment_claim(CallClaim(i)))
    /\ Matches(CallClaim(i).quote_text, TTM_KEYWORDS)
    /\ ClaimMetric(CallClaim(i)) \in ANNUAL_SUM_METRICS
    /\ AggregationWindow(i) # <<>>

\* the fact the call finds for the summed field in a quarter of the window
WindowFact(i, yq) == CallFact(i, FmpField(ClaimMetric(CallClaim(i))), yq)

\* the quarters of the window without the metric, in the order of the window
AbsentPeriods(i) ==
    SelectSeq(AggregationWindow(i), LAMBDA yq : ~WindowFact(i, yq).found)

LabelsOf(periods) == [k \in 1..Len(periods) |-> QLabel(periods[k][1], periods[k][2])]

RECURSIVE WindowTotal(_, _)
\* the sum of the facts of the first n quarters of the window, all on file
WindowTotal(i, n) ==
    IF n = 0 THEN Num(0)
    ELSE RAdd(WindowTotal(i, n - 1), WindowFact(i, AggregationWindow(i)[n]).value)

\* what _sum_metric_for_periods returns for the window of claim i
WindowSum(i) ==
    sum_metric_for_periods(fmp_data, FmpField(ClaimMetric(CallClaim(i))),
                           AggregationWindow(i),
                           should_use_calendar_alias(CallClaim(i), EffectivePeriod[1],
                                                     EffectivePeriod[2]))

WholeSumOrMissing(i, agg, absent) ==
    /\ IsNum(agg.total) <=> absent = <<>>
    /\ agg.missing = LabelsOf(absent)
    /\ absent = <<>>
         => /\ agg.total = WindowTotal(i, Len(AggregationWindow(i)))
            /\ returned[i].actual_value = agg.total
    /\ absent # <<>>
         => /\ IsNone(agg.total)
            /\ returned[i].verdict = "unverifiable"
            /\ verdicts[i].verification.verdict = "unverifiable"
            /\ IsNone(returned[i].actual_value)
            /\ returned[i].explanation = MissingExpl(LabelsOf(absent))

\* C19: when a call sums a metric over a window of quarters, the sum is a
\* number only if every quarter of the window has the metric, and then it is
\* the sum of all of them; otherwise there is no total, the missing labels are
\* exactly the absent quarters, and the verdict is unverifiable with an
\* explanation that lists exactly those quarters
C19_NoPartialSum ==
    \A i \in 1..Len(returned) :
        MultiPeriodCall(i) => WholeSumOrMissing(i, WindowSum(i), AbsentPeriods(i))

\* a claim about four quarters found the first quarter of its window and lacks
\* the other three: the verdict is unverifiable and names the three
C19_Witness ==
    /\ pc = "done"
    /\ Len(returned) = 1
    /\ MultiPeriodCall(1)
    /\ Len(AggregationWindow(1)) = 4
    /\ Len(AbsentPeriods(1)) = 3
    /\ WindowFact(1, AggregationWindow(1)[1]).found
    /\ returned[1].verdict = "unverifiable"
    /\ Len(returned[1].explanation.missing) = 3


(***************************************************************************)
(* C20: the order of the detectors                                         *)
(***************************************************************************)
\* verdict i is the early exit of a detector: unverifiable with its flag only
ExitWith(i, flag) ==
    /\ returned[i].verdict = "unverifiable"
    /\ returned[i].flags = <<flag>>
    /\ IsNone(returned[i].actual_value)

NonGaapHit(i) == CallClaim(i).gaap_classification = "non_gaap"

GuidanceHit(i) == CallClaim(i).claim_type = "guidance"

CapexLeaseHit(i) ==
    /\ ClaimMetric(CallClaim(i)) \in CAPEX_METRICS
    /\ Matches(CallClaim(i).quote_text, CAPEX_LEASE_KEYWORDS)

DollarGrowthHit(i) ==
    /\ CallClaim(i).claim_type \in {"yoy_growth", "qoq_growth"}
    /\ CallClaim(i).unit = "dollars"

\* the claim is an absolute claim whose period resolves and whose metric the
\* catalog knows: the detectors on the quote and the context of absolute
\* claims apply to it
AbsoluteResolved(i) ==
    /\ CallClaim(i).claim_type = "absolute"
    /\ CallPeriods(i).error = ""
    /\ InCatalog(ClaimMetric(CallClaim(i)))

MultiPeriodHit(i) ==
    /\ AbsoluteResolved(i)
    /\ Matches(CallClaim(i).quote_text, TTM_KEYWORDS)

SegmentHit(i) ==
    /\ AbsoluteResolved(i)
    /\ ClaimMetric(CallClaim(i)) \in SEGMENT_METRICS
    /\ is_segment_claim(CallClaim(i))

\* verdict i comes from the multi-period rule: its early exits carry the flag
\* "ttm_or_multiperiod", its comparison reports the sum over the window
HandledByMultiPeriod(i) ==
    \/ /\ returned[i].verdict = "unverifiable"
       /\ returned[i].flags = <<"ttm_or_multiperiod">>
    \/ /\ AggregationWindow(i) # <<>>
       /\ IsNum(returned[i].actual_value)
       /\ returned[i].actual_value = WindowSum(i).total
       /\ returned[i].financial_facts_used = WindowSum(i).facts

\* C20 as stated: the first detector that matches decides, in the order
\* non-GAAP, guidance, multi-period phrasing, CapEx finance leases,
\* dollar-unit growth, segment detection
C20_SpecifiedOrder ==
    \A i \in 1..Len(returned) :
        /\ NonGaapHit(i) => ExitWith(i, "non_gaap_claim")
        /\ ~NonGaapHit(i) /\ GuidanceHit(i) => ExitWith(i, "guidance_claim")
        /\ ~NonGaapHit(i) /\ ~GuidanceHit(i) /\ MultiPeriodHit(i)
             => HandledByMultiPeriod(i)
        /\ ~NonGaapHit(i) /\ ~GuidanceHit(i) /\ ~MultiPeriodHit(i) /\ CapexLeaseHit(i)
             => ExitWith(i, "capex_includes_leases")
        /\ ~NonGaapHit(i) /\ ~GuidanceHit(i) /\ ~MultiPeriodHit(i) /\ ~CapexLeaseHit(i)
             /\ DollarGrowthHit(i)
             => ExitWith(i, "dollar_amount_growth")
        /\ ~NonGaapHit(i) /\ ~GuidanceHit(i) /\ ~MultiPeriodHit(i) /\ ~CapexLeaseHit(i)
             /\ ~DollarGrowthHit(i) /\ SegmentHit(i)
             => ExitWith(i, "segment_claim")

\* C20, amended: the first detector that matches decides, in the order
\* non-GAAP, guidance, CapEx finance leases, dollar-unit growth, segment
\* detection, multi-period phrasing; a claim that matches the multi-period
\* detector and also the CapEx finance-lease wording or a segment context is
\* handled by the CapEx or the segment rule
C20_CodeOrder ==
    \A i \in 1..Len(returned) :
        /\ NonGaapHit(i) => ExitWith(i, "non_gaap_claim")
        /\ ~NonGaapHit(i) /\ GuidanceHit(i) => ExitWith(i, "guidance_claim")
        /\ ~NonGaapHit(i) /\ ~GuidanceHit(i) /\ CapexLeaseHit(i)
             => ExitWith(i, "capex_includes_leases")
        /\ ~NonGaapHit(i) /\ ~GuidanceHit(i) /\ ~CapexLeaseHit(i) /\ DollarGrowthHit(i)
             => ExitWith(i, "dollar_amount_growth")
        /\ ~NonGaapHit(i) /\ ~GuidanceHit(i) /\ ~CapexLeaseHit(i) /\ ~DollarGrowthHit(i)
             /\ SegmentHit(i)
             => ExitWith(i, "segment_claim")
        /\ ~NonGaapHit(i) /\ ~GuidanceHit(i) /\ ~CapexLeaseHit(i) /\ ~DollarGrowthHit(i)
             /\ ~SegmentHit(i) /\ MultiPeriodHit(i)
             => HandledByMultiPeriod(i)

\* a revenue claim with trailing-twelve-month wording and a segment context
\* was answered by the segment rule
C20_Witness ==
    /\ pc = "done"
    /\ Len(returned) = 1
    /\ MultiPeriodHit(1)
    /\ SegmentHit(1)
    /\ CallClaim(1).metric_context = "iPhone"
    /\ ~NonGaapHit(1)
    /\ ExitWith(1, "segment_claim")
    /\ ~HandledByMultiPeriod(1)


(***************************************************************************)
(* C21: the windows of multi-period claims                                 *)
(***************************************************************************)
\* the call for claim i is an absolute claim on a summable metric with
\* multi-period wording that no earlier exit answers
SummableMultiPeriodCall(i) ==
    /\ MultiPeriodHit(i)
    /\ ~NonGaapHit(i)
    /\ ~CapexLeaseHit(i)
    /\ ~SegmentHit(i)
    /\ ClaimMetric(CallClaim(i)) \in ANNUAL_SUM_METRICS

\* quarters counted from year 0: the quarter with a given index
QuarterOfIndex(n) == <<n \div 4, (n % 4) + 1>>

\* the target quarter and the three before it
TrailingFour(year, quarter) ==
    [k \in 1..4 |-> QuarterOfIndex(4 * year + (quarter - 1) - (k - 1))]

YearToDateWords == { "year-to-date", "year to date", "ytd" }

\* the window the wording of a quote stands for
StatedWindow(quote, year, quarter) ==
    IF Matches(quote, TTM_WINDOW_WORDS) THEN TrailingFour(year, quarter)
    ELSE IF Matches(quote, FIRST_HALF_WORDS) THEN << <<year, 1>>, <<year, 2>> >>
    ELSE IF Matches(quote, FIRST_NINE_MONTHS_WORDS)
    THEN << <<year, 1>>, <<year, 2>>, <<year, 3>> >>
    ELSE IF Matches(quote, YearToDateWords) THEN [k \in 1..quarter |-> <<year, k>>]
    ELSE <<>>

\* verdict i reports the aggregation over a window: the sum and its facts, or
\* the quarters of the window that are missing
AggregatedOver(i, agg) ==
    IF IsNone(agg.total)
    THEN /\ returned[i].verdict = "unverifiable"
         /\ returned[i].explanation = MissingExpl(agg.missing)
    ELSE /\ returned[i].actual_value = agg.total
         /\ returned[i].financial_facts_used = agg.facts

RoutedToWindow(i, window) ==
    /\ window # <<>>
    /\ AggregationWindow(i) = window
    /\ AggregatedOver(i, sum_metric_for_periods(
                             fmp_data, FmpField(ClaimMetric(CallClaim(i))), window,
                             should_use_calendar_alias(CallClaim(i), EffectivePeriod[1],
                                                       EffectivePeriod[2])))

\* C21: every absolute claim on a summable metric whose quote has
\* trailing-twelve-month, year-to-date ("year-to-date", "year to date", "ytd"),
\* first-half or first-nine-months wording is aggregated over its window for
\* the target quarter: the target quarter and the three before it, Q1..target,
\* Q1..Q2, Q1..Q3
C21_RoutedToItsWindow ==
    \A i \in 1..Len(returned) :
        SummableMultiPeriodCall(i)
          => RoutedToWindow(i, StatedWindow(CallClaim(i).quote_text,
                                            CallPeriods(i).target[1],
                                            CallPeriods(i).target[2]))

\* the same for the wordings other than "year to date" written with spaces
C21_RoutedUnlessSpaced ==
    \A i \in 1..Len(returned) :
        SummableMultiPeriodCall(i) /\ "year to date" \notin CallClaim(i).quote_text
          => RoutedToWindow(i, StatedWindow(CallClaim(i).quote_text,
                                            CallPeriods(i).target[1],
                                            CallPeriods(i).target[2]))


(***************************************************************************)
(* C22: targets and baselines                                              *)
(***************************************************************************)
\* the target of the call for claim i: the parsed period text, the
\* transcript's own period when the text does not parse
StatedTarget(i) ==
    IF parse_period(CallClaim(i).period) # NoPeriod THEN parse_period(CallClaim(i).period)
    ELSE EffectivePeriod

\* the baseline of a growth claim with a quarterly target
StatedBaseline(claim, target) ==
    IF claim.claim_type = "yoy_growth"
    THEN IF parse_period(claim.comparison_period) # NoPeriod
         THEN parse_period(claim.comparison_period)
         ELSE <<target[1] - 1, target[2]>>
    ELSE QuarterOfIndex(4 * target[1] + (target[2] - 1) - 1)

\* the quarterly growth comparison of verdict i read the target and the baseline
ComparedQuarters(v, target, baseline) ==
    Len(v.financial_facts_used) = 2
      => /\ <<v.financial_facts_used[1].fy, v.financial_facts_used[1].fq>> = target
         /\ <<v.financial_facts_used[2].fy, v.financial_facts_used[2].fq>> = baseline

\* C22: the target of a call is the parsed period of the claim, the
\* transcript's (year, quarter) when the text does not parse; for a quarterly
\* target a yoy_growth claim's baseline is its comparison_period when that
\* parses and (year - 1, q) otherwise, a qoq_growth claim's baseline is the
\* previous quarter, (year - 1, 4) for Q1, and the comparison reads those two
C22_TargetAndBaseline ==
    \A i \in 1..Len(returned) :
        /\ CallPeriods(i).target = StatedTarget(i)
        /\ (/\ StatedTarget(i)[2] \in 1..4
            /\ CallClaim(i).claim_type \in {"yoy_growth", "qoq_growth"})
             => /\ CallPeriods(i).error = ""
                /\ CallPeriods(i).baseline = StatedBaseline(CallClaim(i), StatedTarget(i))
                /\ ~DollarGrowthHit(i) /\ ~NonGaapHit(i)
                     => ComparedQuarters(returned[i], StatedTarget(i),
                                         StatedBaseline(CallClaim(i), StatedTarget(i)))

\* a quarter-over-quarter claim about Q1 2025 was compared with Q4 2024
C22_Witness ==
    /\ pc = "done"
    /\ Len(returned) = 1
    /\ CallClaim(1).claim_type = "qoq_growth"
    /\ CallPeriods(1).target = <<2025, 1>>
    /\ CallPeriods(1).baseline = <<2024, 4>>
    /\ Len(returned[1].financial_facts_used) = 2
    /\ returned[1].financial_facts_used[2].fy = 2024
    /\ returned[1].financial_facts_used[2].fq = 4
    /\ returned[1].verdict \in {"verified", "close_match", "mismatch"}


(***************************************************************************)
(* C23: the tolerances of basis-point margin changes                       *)
(***************************************************************************)
ApproximateCall(i) ==
    CallClaim(i).is_approximate \/ is_approximate(CallClaim(i).qualifiers)

\* verdict i is the comparison of a basis-point margin change
BpsChangeCompared(i) ==
    /\ CallClaim(i).claim_type = "margin"
    /\ \/ Matches(CallClaim(i).quote_text, BPS_CHANGE_KEYWORDS)
       \/ Matches(CallClaim(i).quote_text, BPS_CHANGE_KEYWORDS2)
    /\ returned[i].explanation.kind = "margin_change"
    /\ IsNum(returned[i].difference_pct)

\* the label of a difference in basis points under a tight and a loose bound
BpsLabel(diff_bps, tight, loose) ==
    IF RLe(diff_bps, Num(tight)) THEN "verified"
    ELSE IF RLe(diff_bps, Num(loose)) THEN "close_match"
    ELSE "mismatch"

\* C23 as stated: a basis-point margin change within 25 bps is verified and
\* within 75 bps close_match; for an approximate claim the bounds are 50 bps
\* and 150 bps
C23_BothBoundsDoubled ==
    \A i \in 1..Len(returned) :
        BpsChangeCompared(i)
          => returned[i].numeric
               = (IF ApproximateCall(i) THEN BpsLabel(returned[i].difference_pct, 50, 150)
                  ELSE BpsLabel(returned[i].difference_pct, 25, 75))

\* C23, amended: a basis-point margin change within 25 bps is verified and
\* within 75 bps close_match; for an approximate claim the bounds are 50 bps
\* and 100 bps
C23_ApproximateBoundsFiftyHundred ==
    \A i \in 1..Len(returned) :
        BpsChangeCompared(i)
          => /\ returned[i].numeric
                  = (IF ApproximateCall(i)
                     THEN BpsLabel(returned[i].difference_pct, 50, 100)
                     ELSE BpsLabel(returned[i].difference_pct, 25, 75))
             /\ returned[i].tolerance_used
                  = (IF ApproximateCall(i) THEN Num(50) ELSE Num(25))

\* an approximate claim is off by 101 basis points and is a mismatch
C23_Witness ==
    /\ pc = "done"
    /\ Len(returned) = 1
    /\ BpsChangeCompared(1)
    /\ ApproximateCall(1)
    /\ returned[1].difference_pct = Num(101)
    /\ returned[1].numeric = "mismatch"
    /\ returned[1].verdict = "mismatch"


(***************************************************************************)
(* C24: the supplemental quarter-over-quarter reference                    *)
(***************************************************************************)
\* the quarter before the target of the call for claim i
PreviousOfTarget(i) ==
    QuarterOfIndex(4 * CallPeriods(i).target[1] + (CallPeriods(i).target[2] - 1) - 1)

\* the period under whose key a lookup of the call finds its fact
LookupPeriod(i, yq) ==
    IF HasFact(fmp_data, yq[1], yq[2], FmpField(ClaimMetric(CallClaim(i)))) THEN yq
    ELSE IF AliasPermitted(i) /\ yq \in DOMAIN fmp_data.aliases THEN fmp_data.aliases[yq]
    ELSE yq

\* claim i is a year-over-year claim about a quarter, compared with a quarter
\* other than the one before its target
QuarterlyYoyCall(i) ==
    /\ CallClaim(i).claim_type = "yoy_growth"
    /\ InCatalog(ClaimMetric(CallClaim(i)))
    /\ CallPeriods(i).error = ""
    /\ CallPeriods(i).target[2] \in 1..4
    /\ LookupPeriod(i, CallPeriods(i).target) # PreviousOfTarget(i)
    /\ LookupPeriod(i, CallPeriods(i).baseline) # PreviousOfTarget(i)

WithoutFact(fmp, key) ==
    [fmp EXCEPT !.facts = [k \in DOMAIN fmp.facts \ {key} |-> fmp.facts[k]]]

WithFact(fmp, key, value) ==
    [fmp EXCEPT !.facts = [k \in DOMAIN fmp.facts \cup {key} |->
                              IF k = key THEN value ELSE fmp.facts[k]]]

PreviousQuarterValues == { Num(0), Num(1), Num(95), Num(1000), Num(-50) }

\* the store of the run with the fact of one key taken away or replaced
StoreVariants(fmp, key) ==
    {WithoutFact(fmp, key)} \cup { WithFact(fmp, key, v) : v \in PreviousQuarterValues }

\* a verdict without its computation steps and its explanation
ApartFromTrace(v) == [v EXCEPT !.computation_steps = <<>>, !.explanation = NoExplanation]

SameOnEveryVariant(i, key) ==
    \A s \in StoreVariants(fmp_data, key) :
        ApartFromTrace(verify_single_claim(CallClaim(i), transcript.ticker,
                                           EffectivePeriod[1], EffectivePeriod[2], s))
          = ApartFromTrace(returned[i])

\* C24: for a quarterly yoy_growth claim the verdict is the same, label and
\* every field but the computation steps and the explanation, whether the fact
\* of the quarter before the target is absent or present and whatever its value
C24_QoqReferenceIsInformational ==
    \A i \in 1..Len(returned) :
        QuarterlyYoyCall(i)
          => SameOnEveryVariant(i, <<PreviousOfTarget(i)[1], PreviousOfTarget(i)[2],
                                     FmpField(ClaimMetric(CallClaim(i)))>>)

\* a verified year-over-year claim carries the supplemental step, and is
\* verified without it on the store that lacks the previous quarter
C24_Witness ==
    /\ pc = "done"
    /\ Len(returned) = 1
    /\ QuarterlyYoyCall(1)
    /\ returned[1].verdict = "verified"
    /\ \E k \in 1..Len(returned[1].computation_steps) :
          returned[1].computation_steps[k].step = "Supplemental QoQ discrepancy"
    /\ verify_single_claim(CallClaim(1), transcript.ticker, EffectivePeriod[1],
                           EffectivePeriod[2],
                           WithoutFact(fmp_data, <<2024, 4, "revenue">>)).verdict = "verified"
    /\ Len(verify_single_claim(CallClaim(1), transcript.ticker, EffectivePeriod[1],
                               EffectivePeriod[2],
                               WithoutFact(fmp_data, <<2024, 4, "revenue">>)).computation_steps)
         < Len(returned[1].computation_steps)
    /\ PreviousOfTarget(1) = <<2024, 4>>


(***************************************************************************)
(* C25: absolute claims against an actual value of zero                    *)
(***************************************************************************)
\* verdict i is the numeric comparison of an absolute claim with an actual
\* value of 0
ComparedWithZero(i) ==
    /\ CallClaim(i).claim_type = "absolute"
    /\ returned[i].numeric # ""
    /\ IsNum(returned[i].actual_value)
    /\ RIsZero(returned[i].actual_value)
    /\ IsNum(returned[i].difference)

NoInfinity(v) ==
    /\ v.difference_pct # Inf
    /\ \A k \in 1..Len(v.computation_steps) : v.computation_steps[k].result # Inf

\* C25: when the actual value of an absolute claim is 0, a claimed value of 0
\* has difference_pct 0 and the numeric label verified, and neither for a
\* claimed value of 0 nor for another one does an infinite value appear in
\* difference_pct or in the computation steps
C25_ZeroActual ==
    \A i \in 1..Len(returned) :
        ComparedWithZero(i)
          => /\ RIsZero(returned[i].difference)
                  => /\ returned[i].difference_pct = Num(0)
                     /\ returned[i].numeric = "verified"
             /\ NoInfinity(returned[i])


\* the numeric comparison labelled claim i mismatch
NumericMismatch(i) == returned[i].numeric = "mismatch"

\* the claimed value of the call for claim i, normalised
NormalizedClaimed(i) ==
    normalize_claimed_value(CallClaim(i).claimed_value, CallClaim(i).unit,
                            CallClaim(i).scale)

\* the spec's undisclosed non-GAAP rule on the verdict of claim i: basis
\* unknown, claimed value more than 15% above the actual, no disclosure keyword
UndisclosedNonGaapRule(i) ==
    /\ CallClaim(i).gaap_classification = "unknown"
    /\ IsNum(returned[i].actual_value)
    /\ ~RIsZero(returned[i].actual_value)
    /\ RGt(RDiv(RSub(NormalizedClaimed(i), returned[i].actual_value),
                RAbs(returned[i].actual_value)), Rat(15, 100))
    /\ ~Matches(CallClaim(i).quote_text, NONGAAP_KEYWORDS)

\* the rule of the absolute comparison: basis unknown, claimed value above the
\* actual, an income or per-share metric
ExceedsGaapRule(i) ==
    /\ CallClaim(i).gaap_classification = "unknown"
    /\ IsNum(returned[i].actual_value)
    /\ RGt(NormalizedClaimed(i), returned[i].actual_value)
    /\ ClaimMetric(CallClaim(i)) \in {"net_income", "eps_basic", "eps_diluted",
                                      "operating_income", "ebitda"}

\* C26 as stated: a numeric mismatch is returned as mismatch, or, for an
\* absolute claim, as misleading, and then only under the undisclosed non-GAAP
\* rule with its 15% threshold and its keyword test.
C26_MismatchEscalatedOnlyAboveFifteen ==
    \A i \in 1..Len(returned) :
        NumericMismatch(i)
          => /\ returned[i].verdict \in {"mismatch", "misleading"}
             /\ returned[i].verdict = "misleading"
                  => /\ CallClaim(i).claim_type = "absolute"
                     /\ UndisclosedNonGaapRule(i)

\* C26: the misleading checks never change a mismatch label: a numeric
\* mismatch is returned as mismatch, or, for an absolute claim, as misleading,
\* and then only when the GAAP basis is unknown, the claimed value exceeds the
\* actual (by any margin above the tolerance, whatever the quote says) and the
\* metric is net income, operating income, EBITDA or a per-share metric.
C26_MismatchEscalatedOnlyAboveActual ==
    \A i \in 1..Len(returned) :
        NumericMismatch(i)
          => /\ returned[i].verdict \in {"mismatch", "misleading"}
             /\ returned[i].verdict = "misleading"
                  => /\ CallClaim(i).claim_type = "absolute"
                     /\ ExceedsGaapRule(i)

\* an absolute claim above the actual by more than the tolerance and by at most
\* 15%, or quoted with a disclosure keyword, is returned as misleading
C26_Witness ==
    \E j \in 1..Len(returned) :
        /\ NumericMismatch(j)
        /\ CallClaim(j).claim_type = "absolute"
        /\ ExceedsGaapRule(j)
        /\ ~RIsZero(returned[j].actual_value)
        /\ ~UndisclosedNonGaapRule(j)
        /\ returned[j].verdict = "misleading"
        /\ HasFlag(returned[j], "possible_non_gaap_without_disclosure")


\* the call for claim i is a quarterly revenue growth claim with a numeric
\* claimed value whose two quarters were found, the earlier one not zero
RevenueGrowthCompared(i) ==
    /\ CallClaim(i).claim_type \in {"yoy_growth", "qoq_growth"}
    /\ ClaimMetric(CallClaim(i)) = "revenue"
    /\ CallPeriods(i).error = ""
    /\ CallPeriods(i).target[2] \in 1..4
    /\ ~returned[i].raised
    /\ IsNum(CallClaim(i).claimed_value)
    /\ Len(returned[i].financial_facts_used) = 2
    /\ ~RIsZero(returned[i].financial_facts_used[2].value)

\* |claimed - computed| growth of such a call, in percentage points
GrowthDifference(i) ==
    RAbs(RSub(CallClaim(i).claimed_value,
              compute_yoy_growth(returned[i].financial_facts_used[1].value,
                                 returned[i].financial_facts_used[2].value)))

\* C27: a quarterly revenue growth claim more than 3 pp away from the computed
\* growth is unverifiable with flag revenue_growth_definition_mismatch, so one
\* labelled mismatch is not approximate and is more than 2 pp and at most 3 pp
\* away
C27_RevenueGrowthAboveThreePoints ==
    \A i \in 1..Len(returned) :
        RevenueGrowthCompared(i)
          => /\ RGt(GrowthDifference(i), Num(3))
                  => /\ returned[i].verdict = "unverifiable"
                     /\ HasFlag(returned[i], "revenue_growth_definition_mismatch")
             /\ returned[i].verdict = "mismatch"
                  => /\ ~ApproximateCall(i)
                     /\ RGt(GrowthDifference(i), GROWTH_RATE_LOOSE_PP)
                     /\ RLe(GrowthDifference(i), Num(3))

\* a revenue growth claim 20 pp away from the computed growth, quoted without
\* any keyword, has been answered unverifiable with the flag
C27_Witness ==
    \E i \in 1..Len(returned) :
        /\ RevenueGrowthCompared(i)
        /\ GrowthDifference(i) = Num(20)
        /\ CallClaim(i).quote_text = {}
        /\ returned[i].verdict = "unverifiable"
        /\ HasFlag(returned[i], "revenue_growth_definition_mismatch")


\* the call for claim i is a quarterly absolute revenue claim about the whole
\* company with a numeric claimed value and a positive actual on file
TotalRevenueClaim(i) ==
    LET c == CallClaim(i)
        p == CallPeriods(i)
    IN  /\ c.claim_type = "absolute"
        /\ ClaimMetric(c) = "revenue"
        /\ ~is_segment_claim(c)
        /\ p.error = ""
        /\ p.target[2] \in 1..4
        /\ ~Matches(c.quote_text, TTM_KEYWORDS)
        /\ IsNum(NormalizedClaimed(i))
        /\ CallFact(i, "revenue", p.target).found
        /\ RGt(CallFact(i, "revenue", p.target).value, Num(0))

\* claimed / actual of such a call
RevenueRatio(i) ==
    RDiv(NormalizedClaimed(i), CallFact(i, "revenue", CallPeriods(i).target).value)

\* C28: a quarterly total-company absolute revenue claim below 80% of a
\* positive actual, exactly 50% included, is unverifiable and never mismatch
C28_NoGapBelowEighty ==
    \A i \in 1..Len(returned) :
        TotalRevenueClaim(i) /\ RLt(RevenueRatio(i), Rat(80, 100))
          => returned[i].verdict = "unverifiable"

\* the bands as the code tests them: every ratio below 80% but exactly 50%
C28_NoGapButAtHalf ==
    \A i \in 1..Len(returned) :
        /\ TotalRevenueClaim(i)
        /\ RLt(RevenueRatio(i), Rat(80, 100))
        /\ RevenueRatio(i) # Rat(50, 100)
        => returned[i].verdict = "unverifiable"


\* the call for claim i sums its metric over a window whose quarters are all
\* on file, and the claimed value is that sum
ClaimsTheWindowSum(i) ==
    /\ MultiPeriodCall(i)
    /\ IsNum(NormalizedClaimed(i))
    /\ IsNum(WindowSum(i).total)
    /\ NormalizedClaimed(i) = WindowSum(i).total

\* C29: a multi-period absolute claim on a summable metric whose claimed value
\* equals the sum of the quarters of its window is labelled verified and is
\* never escalated to misleading: the misleading checks judge it against the
\* sum the numeric comparison used
C29_WindowSumIsVerified ==
    \A i \in 1..Len(returned) :
        ClaimsTheWindowSum(i)
          => /\ returned[i].verdict = "verified"
             /\ returned[i].misleading_flags = <<>>


\* the verdict of the call for claim i with is_approximate set to a value
CallAs(i, approximate) ==
    verify_single_claim([CallClaim(i) EXCEPT !.is_approximate = approximate],
                        transcript.ticker, EffectivePeriod[1], EffectivePeriod[2],
                        fmp_data)

\* the approximate verdict is not stricter than the exact one
NotStricter(exact, approximate) ==
    /\ exact.raised <=> approximate.raised
    /\ exact.verdict = "unverifiable"
         => /\ approximate.verdict = "unverifiable"
            /\ approximate.flags = exact.flags
    /\ exact.verdict = "verified" => approximate.verdict = "verified"
    /\ exact.verdict = "close_match" => approximate.verdict \in {"verified", "close_match"}
    /\ exact.verdict \in {"verified", "close_match", "misleading"}
         => approximate.verdict # "mismatch"

\* C30: marking a claim approximate never makes its verdict stricter: against
\* the verdict of the same claim with is_approximate false, the verdict with
\* is_approximate true keeps unverifiable with the same flags, keeps verified,
\* turns close_match into verified or close_match, and turns no verified,
\* close_match or misleading verdict into mismatch
C30_ApproximateIsNotStricter ==
    \A i \in 1..Len(returned) :
        /\ returned[i] = CallAs(i, CallClaim(i).is_approximate)
        /\ NotStricter(CallAs(i, FALSE), CallAs(i, TRUE))

\* an exact claim returned as close_match that is verified when marked
\* approximate
C30_Witness ==
    \E i \in 1..Len(returned) :
        /\ ~CallClaim(i).is_approximate
        /\ ~is_approximate(CallClaim(i).qualifiers)
        /\ returned[i].verdict = "close_match"
        /\ CallAs(i, TRUE).verdict = "verified"

=============================================================================
